---- MODULE Spec2Model ----
(***************************************************************************)
(* A model of the refurbished-product scraper: the text price parser, the *)
(* field standardizer (storage format, machine classification) and the    *)
(* change detector of src/histv7.py, with the price parser and change     *)
(* detector of src/simple_scraper.py beside them.                         *)
(*                                                                         *)
(* Text is a sequence of one-character strings, so that cleaning, regular *)
(* expression matching, number parsing and formatting are computed the    *)
(* way the code computes them.  Three characters that are not ASCII are   *)
(* written as the symbols "GBP" (the pound sign), "NBHY" (U+2011, the     *)
(* non-breaking hyphen) and "NBSP" (U+00A0).  Money is counted in pence   *)
(* and a percentage in hundredths of a percent, so that the two decimals  *)
(* the code keeps are integers here.                                      *)
(***************************************************************************)
EXTENDS Integers, Sequences, FiniteSets, TLC

VARIABLES
    pc,                    \* position of the modelled call: "start" | "called" | "done"
    price_text,            \* extract_prices_from_text: the argument
    price_matches,         \* extract_prices_from_text: the local list price_matches (histv7)
    price_values,          \* extract_prices_from_text: the local list price_values (histv7)
    prices,                \* extract_prices_from_text: the returned dict (histv7)
    simple_price_matches,  \* extract_prices_from_text: the local list price_matches (simple_scraper)
    simple_price_values,   \* extract_prices_from_text: the local list price_values (simple_scraper)
    simple_prices,         \* extract_prices_from_text: the returned dict (simple_scraper)
    storage_gb,            \* _standardize_storage_format: the argument
    storage_out,           \* _standardize_storage_format: the returned string
    name,                  \* _standardize_machine_type: the argument
    machine_type,          \* _standardize_machine_type: the returned string
    scraper,               \* the program that runs: "histv7" | "simple"
    google_client,         \* self.google_client is set (the store is available)
    current_products,      \* detect_and_log_changes: the list of product dicts
    previous_data,         \* detect_and_log_changes: the dict sku -> record, in insertion order
    price_changes,         \* detect_and_log_changes: local list price_changes of the last call
    availability_changes,  \* detect_and_log_changes: local list availability_changes of the last call
    price_history,         \* rows of the Price History sheet
    availability_history,  \* rows of the Availability History sheet
    clock,                 \* datetime.now(), in ticks
    calls,                 \* the events computed by each detection call so far, in call order
    variant_rows,          \* load_variant_lookup: the rows fetched from the variants table
    variant_lookup,        \* self.variant_lookup: dict key -> Variant ID, in insertion order
    variant_lookup_simple, \* self.variant_lookup_simple: dict key -> Variant ID
    lookup_args,           \* find_variant_id_and_model: the nine arguments
    variant_id,            \* find_variant_id_and_model: the first element of the returned pair
    colour_in,             \* _standardize_colour: the argument
    colour_out,            \* _standardize_colour: the returned string
    apple_products,        \* standardize_apple_data: the list of raw product dicts
    now,                   \* datetime.now() as the standardizer reads it, in ticks
    standardized_runs,     \* what each standardize_apple_data call so far returned, in call order
    step,                  \* scrape_all_mac_products: the step the run has reached
    spreadsheet,           \* self.spreadsheet is set
    standardizer,          \* self.standardizer is set
    listed,                \* the number of products the category pages gave
    store_calls,           \* the store operations attempted so far, each with its outcome
    returned,              \* the number of products the run returned, None before it returns
    listing,               \* extract_detailed_specs: the product dict passed in
    page_text,             \* soup.get_text() of the product page, None when get_page gave no document
    extracted,             \* extract_detailed_specs: the product dict returned and whether the handler ran
    current_sheet,         \* the rows of the Current Inventory sheet, below its header
    loaded,                \* load_previous_data of this run read the sheet
    fetched,               \* get_page gave a document for a category page in this run
    last_run,              \* the products of the run before this one and whether its snapshot operations succeeded
    run_count,             \* the number of runs started so far
    appended               \* every batch of the history sheets was appended so far

vars == <<pc, price_text, price_matches, price_values, prices,
          simple_price_matches, simple_price_values, simple_prices, storage_gb, storage_out, name,
          machine_type, scraper, google_client, current_products, previous_data,
          price_changes, availability_changes, price_history,
          availability_history, clock, calls,
          variant_rows, variant_lookup, variant_lookup_simple, lookup_args, variant_id,
          colour_in, colour_out,
          apple_products, now, standardized_runs,
          step, spreadsheet, standardizer, listed, store_calls, returned,
          listing, page_text, extracted,
          current_sheet, loaded, fetched, last_run, run_count, appended>>

price_vars == <<price_text, price_matches, price_values, prices,
                simple_price_matches, simple_price_values, simple_prices>>
std_vars == <<storage_gb, storage_out, name, machine_type>>
variant_vars == <<variant_rows, variant_lookup, variant_lookup_simple, lookup_args, variant_id>>
colour_vars == <<colour_in, colour_out>>
batch_vars == <<apple_products, now, standardized_runs>>
run_vars == <<step, spreadsheet, standardizer, listed, store_calls, returned>>
extract_vars == <<listing, page_text, extracted>>
snapshot_vars == <<current_sheet, loaded, fetched, last_run, run_count, appended>>
later_vars == <<variant_vars, colour_vars, batch_vars, run_vars, extract_vars, snapshot_vars>>
detect_vars == <<scraper, google_client, current_products, previous_data, price_changes,
                 availability_changes, price_history, availability_history,
                 clock, calls>>

-----------------------------------------------------------------------------
(* Python values *)

\* None, and a value that is present
None == <<>>
Some(v) == <<v>>

\* The concatenation of a sequence of strings
RECURSIVE Cat(_)
Cat(ss) == IF ss = <<>> THEN <<>> ELSE Head(ss) \o Cat(Tail(ss))

-----------------------------------------------------------------------------
(* Characters and the str / re operations the code uses *)

POUND == "GBP"
NBHY == "NBHY"
NBSP == "NBSP"

Digits == <<"0", "1", "2", "3", "4", "5", "6", "7", "8", "9">>

IsDigit(c) == \E i \in 1..10 : Digits[i] = c

DigitVal(c) == (CHOOSE i \in 1..10 : Digits[i] = c) - 1

UpperToLower ==
    [A |-> "a", B |-> "b", C |-> "c", D |-> "d", E |-> "e", F |-> "f", G |-> "g",
     H |-> "h", I |-> "i", J |-> "j", K |-> "k", L |-> "l", M |-> "m", N |-> "n",
     O |-> "o", P |-> "p", Q |-> "q", R |-> "r", S |-> "s", T |-> "t", U |-> "u",
     V |-> "v", W |-> "w", X |-> "x", Y |-> "y", Z |-> "z"]

LowerToUpper ==
    [a |-> "A", b |-> "B", c |-> "C", d |-> "D", e |-> "E", f |-> "F", g |-> "G",
     h |-> "H", i |-> "I", j |-> "J", k |-> "K", l |-> "L", m |-> "M", n |-> "N",
     o |-> "O", p |-> "P", q |-> "Q", r |-> "R", s |-> "S", t |-> "T", u |-> "U",
     v |-> "V", w |-> "W", x |-> "X", y |-> "Y", z |-> "Z"]

IsLetter(c) == c \in DOMAIN UpperToLower \/ c \in DOMAIN LowerToUpper

\* \w of re
IsWordChar(c) == IsLetter(c) \/ IsDigit(c) \/ c = "_"

\* \s of re and the characters str.strip() removes
IsSpace(c) == c \in {" ", NBSP}

\* str.lower() and str.upper()
Lower(s) == [i \in 1..Len(s) |->
                IF s[i] \in DOMAIN UpperToLower THEN UpperToLower[s[i]] ELSE s[i]]

Upper(s) == [i \in 1..Len(s) |->
                IF s[i] \in DOMAIN LowerToUpper THEN LowerToUpper[s[i]] ELSE s[i]]

\* p occurs in s at position i
OccursAt(s, p, i) ==
    /\ i >= 1
    /\ i + Len(p) - 1 <= Len(s)
    /\ \A k \in 1..Len(p) : s[i + k - 1] = p[k]

\* p in s
Contains(s, p) == \E i \in 1..(Len(s) - Len(p) + 1) : OccursAt(s, p, i)

\* str.replace(old, new): every occurrence, left to right, without overlap
RECURSIVE ReplaceFrom(_, _, _, _)
ReplaceFrom(s, old, new, i) ==
    IF i > Len(s) THEN <<>>
    ELSE IF OccursAt(s, old, i) THEN new \o ReplaceFrom(s, old, new, i + Len(old))
    ELSE <<s[i]>> \o ReplaceFrom(s, old, new, i + 1)

Replace(s, old, new) == IF Contains(s, old) THEN ReplaceFrom(s, old, new, 1) ELSE s

\* str.strip()
RECURSIVE LStrip(_)
LStrip(s) == IF s # <<>> /\ IsSpace(Head(s)) THEN LStrip(Tail(s)) ELSE s

RECURSIVE RStrip(_)
RStrip(s) == IF s # <<>> /\ IsSpace(s[Len(s)]) THEN RStrip(SubSeq(s, 1, Len(s) - 1)) ELSE s

Strip(s) == RStrip(LStrip(s))

DigitChars == {Digits[i] : i \in 1..10}

\* The leftmost of a set of positions
FirstOf(hits) == CHOOSE i \in hits : \A j \in hits : i <= j

\* The end (exclusive) of the longest run of characters of the set cs from i
RECURSIVE RunEnd(_, _, _)
RunEnd(s, i, cs) ==
    IF i <= Len(s) /\ s[i] \in cs THEN RunEnd(s, i + 1, cs) ELSE i

\* int() of a string of digits
RECURSIVE DigitsValue(_)
DigitsValue(s) ==
    IF s = <<>> THEN 0
    ELSE 10 * DigitsValue(SubSeq(s, 1, Len(s) - 1)) + DigitVal(s[Len(s)])

\* str() of a natural number
RECURSIVE NatToStr(_)
NatToStr(n) ==
    IF n < 10 THEN <<Digits[n + 1]>>
    ELSE NatToStr(n \div 10) \o <<Digits[(n % 10) + 1]>>

-----------------------------------------------------------------------------
(* The text price parser: extract_prices_from_text *)

\* re.sub(r'<[^>]+>', '', text)
RECURSIVE StripTagsFrom(_, _)
StripTagsFrom(s, i) ==
    IF i > Len(s) THEN <<>>
    ELSE IF s[i] # "<" THEN <<s[i]>> \o StripTagsFrom(s, i + 1)
    ELSE LET j == RunEnd(s, i + 1, {s[k] : k \in 1..Len(s)} \ {">"})
         IN  IF j <= Len(s) /\ j >= i + 2
             THEN StripTagsFrom(s, j + 1)
             ELSE <<s[i]>> \o StripTagsFrom(s, i + 1)

StripTags(s) == StripTagsFrom(s, 1)

\* re.sub(r'\s+', ' ', text)
RECURSIVE CollapseSpacesFrom(_, _)
CollapseSpacesFrom(s, i) ==
    IF i > Len(s) THEN <<>>
    ELSE IF IsSpace(s[i])
         THEN <<" ">> \o CollapseSpacesFrom(s, RunEnd(s, i, {" ", NBSP}))
         ELSE <<s[i]>> \o CollapseSpacesFrom(s, i + 1)

CollapseSpaces(s) == CollapseSpacesFrom(s, 1)

\* The alternation of the stop-word pattern, in its order
StopWords ==
    << <<"n", "o", "w">>,
       <<"w", "a", "s">>,
       <<"s", "a", "v", "e">>,
       <<"v", "i", "s", "u", "a", "l", "l", "y", "h", "i", "d", "d", "e", "n">>,
       <<"s", "p", "a", "n">>,
       <<"c", "l", "a", "s", "s">> >>

\* \b(Now|Was|...)\b matches the word w at position i of s, whatever the case
StopWordAt(s, low, w, i) ==
    /\ (i = 1 \/ ~IsWordChar(s[i - 1]))
    /\ OccursAt(low, w, i)
    /\ (i + Len(w) > Len(s) \/ ~IsWordChar(s[i + Len(w)]))

\* re.sub(r'\b(Now|Was|Save|visuallyhidden|span|class)\b', '', text, flags=re.IGNORECASE)
RECURSIVE RemoveStopWordsFrom(_, _, _)
RemoveStopWordsFrom(s, low, i) ==
    IF i > Len(s) THEN <<>>
    ELSE IF ~IsLetter(s[i]) THEN <<s[i]>> \o RemoveStopWordsFrom(s, low, i + 1)
    ELSE LET hits == {k \in 1..Len(StopWords) : StopWordAt(s, low, StopWords[k], i)}
         IN  IF hits # {}
             THEN LET k == CHOOSE h \in hits : \A m \in hits : h <= m
                  IN  RemoveStopWordsFrom(s, low, i + Len(StopWords[k]))
             ELSE <<s[i]>> \o RemoveStopWordsFrom(s, low, i + 1)

RemoveStopWords(s) == RemoveStopWordsFrom(s, Lower(s), 1)

\* re.findall(r'GBP([\d,]+(?:\.\d{2})?)', text): the captured groups, in text order
RECURSIVE PriceMatchesFrom(_, _)
PriceMatchesFrom(s, i) ==
    IF i > Len(s) THEN <<>>
    ELSE IF s[i] # POUND THEN PriceMatchesFrom(s, i + 1)
    ELSE LET e == RunEnd(s, i + 1, DigitChars \cup {","})
             frac == /\ e + 2 <= Len(s)
                     /\ s[e] = "."
                     /\ IsDigit(s[e + 1])
                     /\ IsDigit(s[e + 2])
             stop == IF frac THEN e + 3 ELSE e
         IN  IF e = i + 1 THEN PriceMatchesFrom(s, i + 1)
             ELSE <<SubSeq(s, i + 1, stop - 1)>> \o PriceMatchesFrom(s, stop)

PriceMatches(s) == PriceMatchesFrom(s, 1)

\* float(match.replace(',', '')), in pence: None when float() raises ValueError.
\* A float does not overflow: a number of more than seven integer digits, far
\* above every price, is held as 1000000000 pence.
MatchValue(m) ==
    LET t == Replace(m, <<",">>, <<>>)
        e == RunEnd(t, 1, DigitChars)
        whole == SubSeq(t, 1, e - 1)
        frac == SubSeq(t, e + 1, Len(t))
    IN  IF t = <<>> THEN None
        ELSE IF Len(whole) > 7 THEN Some(1000000000)
        ELSE Some(100 * DigitsValue(whole) + DigitsValue(frac))

\* 200 <= value <= 20000, in pence
MinPrice == 20000
MaxPrice == 2000000

\* A range filter that lost its lower bound
InPriceRangeNoFloor(v) == v <= MaxPrice

InPriceRange(v) == MinPrice <= v /\ v <= MaxPrice

\* A loop that puts each accepted value before the earlier ones
RECURSIVE PriceValuesNewestFirst(_)
PriceValuesNewestFirst(ms) ==
    IF ms = <<>> THEN <<>>
    ELSE LET v == MatchValue(Head(ms))
         IN  PriceValuesNewestFirst(Tail(ms))
             \o (IF v # None /\ MinPrice <= v[1] /\ v[1] <= MaxPrice THEN v ELSE <<>>)

\* The loop that fills price_values: the values float() accepts that are in range
RECURSIVE PriceValues(_)
PriceValues(ms) ==
    IF ms = <<>> THEN <<>>
    ELSE LET v == MatchValue(Head(ms))
         IN  (IF v # None /\ InPriceRange(v[1]) THEN v ELSE <<>>)
             \o PriceValues(Tail(ms))

\* round(savings / original * 100, 2), in hundredths of a percent: the nearest
\* integer to savings * 10000 / original, computed in two steps so that no
\* intermediate value leaves the 32-bit integers of the model checker
DiscountPct(savings, original) ==
    LET q == savings * 100
    IN  100 * (q \div original)
        + (200 * (q % original) + original) \div (2 * original)

\* abs((original - current) - savings) <= 2, in pence
Tolerance == 200

Abs(x) == IF x < 0 THEN -x ELSE x

NoPrices == [current_price |-> None, original_price |-> None,
             savings |-> None, discount_percentage |-> None]

OnlyCurrent(p1) == [NoPrices EXCEPT !.current_price = Some(p1)]

\* A two-price branch that stores the original price as the savings
TwoPricesNoSubtract(p1, p2) ==
    IF p2 > p1
    THEN [current_price |-> Some(p1), original_price |-> Some(p2),
          savings |-> Some(p2),
          discount_percentage |-> Some(DiscountPct(p2, p2))]
    ELSE OnlyCurrent(p1)

\* The branch for two prices (and the fallback of the branch for three)
TwoPrices(p1, p2) ==
    IF p2 > p1
    THEN [current_price |-> Some(p1), original_price |-> Some(p2),
          savings |-> Some(p2 - p1),
          discount_percentage |-> Some(DiscountPct(p2 - p1, p2))]
    ELSE OnlyCurrent(p1)

\* A three-price branch that takes the third value as the savings
\* without the arithmetic check
ThreePricesUnchecked(current, original, savings) ==
    [current_price |-> Some(current), original_price |-> Some(original),
     savings |-> Some(savings),
     discount_percentage |-> Some(DiscountPct(savings, original))]

\* A three-price branch that keeps only the current price when the
\* arithmetic check fails
ThreePricesNoFallback(current, original, savings) ==
    IF Abs((original - current) - savings) <= Tolerance
    THEN [current_price |-> Some(current), original_price |-> Some(original),
          savings |-> Some(savings),
          discount_percentage |-> Some(DiscountPct(savings, original))]
    ELSE OnlyCurrent(current)

\* The branch for three or more prices
ThreePrices(current, original, savings) ==
    IF Abs((original - current) - savings) <= Tolerance
    THEN [current_price |-> Some(current), original_price |-> Some(original),
          savings |-> Some(savings),
          discount_percentage |-> Some(DiscountPct(savings, original))]
    ELSE TwoPrices(current, original)

\* A pattern matching that has a branch for exactly three prices only
PricesFromValuesExactlyThree(v) ==
    IF Len(v) = 0 THEN NoPrices
    ELSE IF Len(v) = 1 THEN OnlyCurrent(v[1])
    ELSE IF Len(v) = 2 THEN TwoPrices(v[1], v[2])
    ELSE IF Len(v) = 3 THEN ThreePrices(v[1], v[2], v[3])
    ELSE NoPrices

\* The pattern matching on len(price_values)
PricesFromValues(v) ==
    IF Len(v) = 0 THEN NoPrices
    ELSE IF Len(v) = 1 THEN OnlyCurrent(v[1])
    ELSE IF Len(v) = 2 THEN TwoPrices(v[1], v[2])
    ELSE ThreePrices(v[1], v[2], v[3])

\* The text the histv7 parser searches for prices: tags stripped, whitespace
\* normalised, stop words removed
CleanText(text) == RemoveStopWords(CollapseSpaces(Strip(StripTags(text))))

\* The text the simple_scraper parser searches: no strip(), no stop words
SimpleCleanText(text) == CollapseSpaces(StripTags(text))

\* AppleMacScraperV7Historical.extract_prices_from_text: the list price_matches
\* it finds (empty on the early return for an empty or blank text)
ExtractPriceMatches(text) ==
    IF text = <<>> \/ Strip(text) = <<>> THEN <<>>
    ELSE PriceMatches(CleanText(text))

\* SimpleAppleScraper.extract_prices_from_text: the list price_matches it finds
SimpleExtractPriceMatches(text) ==
    IF text = <<>> THEN <<>>
    ELSE PriceMatches(SimpleCleanText(text))

-----------------------------------------------------------------------------
(* Values of the variables a specification does not use *)

IdlePrice ==
    /\ price_text = <<>>
    /\ price_matches = <<>>
    /\ price_values = <<>>
    /\ prices = NoPrices
    /\ simple_price_matches = <<>>
    /\ simple_price_values = <<>>
    /\ simple_prices = NoPrices

IdleStd ==
    /\ storage_gb = <<>>
    /\ storage_out = <<>>
    /\ name = <<>>
    /\ machine_type = <<>>

IdleVariant ==
    /\ variant_rows = <<>>
    /\ variant_lookup = <<>>
    /\ variant_lookup_simple = <<>>
    /\ lookup_args = <<>>
    /\ variant_id = <<>>

IdleColour ==
    /\ colour_in = <<>>
    /\ colour_out = <<>>

IdleBatch ==
    /\ apple_products = <<>>
    /\ now = 0
    /\ standardized_runs = <<>>

IdleRun ==
    /\ step = "new"
    /\ spreadsheet = FALSE
    /\ standardizer = FALSE
    /\ listed = 0
    /\ store_calls = <<>>
    /\ returned = <<>>

IdleExtract ==
    /\ listing = <<>>
    /\ page_text = <<>>
    /\ extracted = <<>>

IdleSnapshot ==
    /\ current_sheet = <<>>
    /\ loaded = FALSE
    /\ fetched = FALSE
    /\ last_run = <<>>
    /\ run_count = 0
    /\ appended = TRUE

IdleLater == IdleVariant /\ IdleColour /\ IdleBatch /\ IdleRun /\ IdleExtract /\ IdleSnapshot

IdleDetect ==
    /\ scraper = "histv7"
    /\ google_client = FALSE
    /\ current_products = <<>>
    /\ previous_data = <<>>
    /\ price_changes = <<>>
    /\ availability_changes = <<>>
    /\ price_history = <<>>
    /\ availability_history = <<>>
    /\ clock = 0
    /\ calls = <<>>

-----------------------------------------------------------------------------
(* The price parser applied to bounded texts *)

\* The pieces a price text is put together from: price tokens inside the
\* plausible range (1000.00, 1500, 500.00, 502, 1150), price tokens below it
\* (100, 150, 50, 10), and a piece of page chrome that holds a tag, a stop
\* word, whitespace and a price token above the range (25,000)
PriceChunks ==
    { <<POUND, "1", ",", "0", "0", "0", ".", "0", "0">>,
      <<POUND, "1", "5", "0", "0">>,
      <<POUND, "5", "0", "0", ".", "0", "0">>,
      <<POUND, "5", "0", "2">>,
      <<POUND, "1", ",", "1", "5", "0">>,
      <<POUND, "1", "0", "0">>,
      <<POUND, "1", "5", "0">>,
      <<POUND, "5", "0">>,
      <<POUND, "1", "0">>,
      <<" ", "<", "b", ">", "W", "a", "s", "<", "/", "b", ">", " ",
        POUND, "2", "5", ",", "0", "0", "0", " ">> }

\* The number of pieces of a price text
MaxChunks == 4

\* All sequences over S of length at most n
SeqsUpTo(S, n) == UNION {[1..k -> S] : k \in 0..n}

InitPrice ==
    /\ pc = "start"
    /\ \E cs \in SeqsUpTo(PriceChunks, MaxChunks) : price_text = Cat(cs)
    /\ price_matches = <<>>
    /\ price_values = <<>>
    /\ prices = NoPrices
    /\ simple_price_matches = <<>>
    /\ simple_price_values = <<>>
    /\ simple_prices = NoPrices
    /\ IdleStd
    /\ IdleDetect
    /\ IdleLater

\* One call of extract_prices_from_text of each scraper on the text
ParsePrices ==
    /\ pc = "start"
    /\ price_matches' = ExtractPriceMatches(price_text)
    /\ price_values' = PriceValues(price_matches')
    /\ prices' = PricesFromValues(price_values')
    /\ simple_price_matches' = SimpleExtractPriceMatches(price_text)
    /\ simple_price_values' = PriceValues(simple_price_matches')
    /\ simple_prices' = PricesFromValues(simple_price_values')
    /\ pc' = "done"
    /\ UNCHANGED <<price_text, std_vars, detect_vars, later_vars>>

NextPrice == ParsePrices

SpecPrice == InitPrice /\ [][NextPrice]_vars

(* Claims about the price parser, checked under SpecPrice *)

\* The values float() gives the matched tokens, in text order (a token float()
\* rejects has none)
RECURSIVE TokenValues(_)
TokenValues(ms) ==
    IF ms = <<>> THEN <<>>
    ELSE MatchValue(Head(ms)) \o TokenValues(Tail(ms))

\* The window [200, 20000] of the claims, in pence
InWindow(v) == 200 * 100 <= v /\ v <= 20000 * 100

\* The values of the tokens outside the plausible window
RejectedValues(ms) ==
    {TokenValues(ms)[i] : i \in {k \in 1..Len(TokenValues(ms)) :
                                    ~InWindow(TokenValues(ms)[k])}}

\* v begins with the values of w
BeginsWith(v, w) == Len(v) >= Len(w) /\ SubSeq(v, 1, Len(w)) = w

\* d is x * 10000 / y rounded to the nearest integer
IsNearestPct(d, x, y) == 2 * Abs(d * y - x * 10000) <= y

\* The result the claim C5 expects of two tokens A then B
TwoTokenResult(A, B, r) ==
    /\ r.current_price = Some(A)
    /\ r.original_price = Some(B)
    /\ r.savings = Some(B - A)
    /\ Len(r.discount_percentage) = 1
    /\ IsNearestPct(r.discount_percentage[1], B - A, B)

\* C5: for a text with exactly two plausible price tokens A then B with B > A,
\* each parser returns current = A, original = B, savings = B - A and
\* discount_pct = (B - A) / B * 100 rounded to two decimals.
C5_TwoPlausibleTokens ==
    pc = "done" =>
        /\ (Len(price_values) = 2 /\ price_values[2] > price_values[1])
              => TwoTokenResult(price_values[1], price_values[2], prices)
        /\ (Len(simple_price_values) = 2 /\ simple_price_values[2] > simple_price_values[1])
              => TwoTokenResult(simple_price_values[1], simple_price_values[2], simple_prices)

\* C5 witness: a text of more than two tokens, two of them plausible (1000
\* then 1500), parsed to savings 500 and 33.33 percent.
C5_Witness ==
    /\ pc = "done"
    /\ Len(price_matches) > 2
    /\ price_values = <<100000, 150000>>
    /\ prices.savings = Some(50000)
    /\ prices.discount_percentage = Some(3333)
    /\ simple_prices = prices

\* C6 as stated: no token whose value lies outside [200, 20000] appears in
\* the output fields current, original or savings.
C6_NoRejectedTokenInOutput ==
    pc = "done" =>
        /\ \A f \in {prices.current_price, prices.original_price, prices.savings} :
              f # None => f[1] \notin RejectedValues(price_matches)
        /\ \A f \in {simple_prices.current_price, simple_prices.original_price,
                      simple_prices.savings} :
              f # None => f[1] \notin RejectedValues(simple_price_matches)

\* What holds of one result r computed from the in-range values v
RangeFiltered(r, v) ==
    /\ \A f \in {r.current_price, r.original_price} :
          f # None => InWindow(f[1]) /\ \E i \in 1..Len(v) : v[i] = f[1]
    /\ r.savings # None =>
          \/ InWindow(r.savings[1]) /\ \E i \in 1..Len(v) : v[i] = r.savings[1]
          \/ /\ r.original_price # None
             /\ r.savings[1] = r.original_price[1] - r.current_price[1]

\* C6 amended: current and original, when present, are tokens of the text
\* with a value in [200, 20000]; savings, when present, is such a token or is
\* the difference original - current (which may lie below 200).
C6_RangeFilter ==
    pc = "done" =>
        /\ RangeFiltered(prices, TokenValues(price_matches))
        /\ RangeFiltered(simple_prices, TokenValues(simple_price_matches))
        /\ \A i \in 1..Len(price_values) : InWindow(price_values[i])
        /\ \A i \in 1..Len(simple_price_values) : InWindow(simple_price_values[i])

\* C6 witness: the tokens 1000, 1150 and 150; the rejected 150 is also the
\* computed savings.
C6_Witness ==
    /\ pc = "done"
    /\ TokenValues(price_matches) = <<100000, 115000, 15000>>
    /\ prices.current_price = Some(100000)
    /\ prices.original_price = Some(115000)
    /\ prices.savings = Some(15000)

\* C7 as stated: a text whose price values are (100, 150, 50), possibly
\* followed by more, parses to current 100, original 150, savings 50, 33.33%.
C7_ThreePricesLiteral ==
    (pc = "done" /\ BeginsWith(TokenValues(price_matches), <<10000, 15000, 5000>>))
        => prices = [current_price |-> Some(10000), original_price |-> Some(15000),
                     savings |-> Some(5000), discount_percentage |-> Some(3333)]

\* C7 amended: a text whose plausible price values are (1000, 1500, 500),
\* possibly followed by more, parses to current 1000, original 1500,
\* savings 500, 33.33%; the values (100, 150, 50) are all rejected by the
\* range filter, and a text with no other value parses to no price at all.
C7_ThreePricesInRange ==
    pc = "done" =>
        /\ BeginsWith(price_values, <<100000, 150000, 50000>>)
              => prices = [current_price |-> Some(100000),
                           original_price |-> Some(150000),
                           savings |-> Some(50000),
                           discount_percentage |-> Some(3333)]
        /\ BeginsWith(simple_price_values, <<100000, 150000, 50000>>)
              => simple_prices = [current_price |-> Some(100000),
                                  original_price |-> Some(150000),
                                  savings |-> Some(50000),
                                  discount_percentage |-> Some(3333)]
        /\ TokenValues(price_matches) = <<10000, 15000, 5000>>
              => prices = NoPrices /\ simple_prices = NoPrices

\* C7 witness: the plausible values 1000, 1500, 500 followed by a fourth.
C7_Witness ==
    /\ pc = "done"
    /\ Len(price_values) = 4
    /\ BeginsWith(price_values, <<100000, 150000, 50000>>)
    /\ prices.savings = Some(50000)
    /\ prices.discount_percentage = Some(3333)

\* C8 as stated: a text whose price values are (100, 150, 10) parses to
\* current 100, original 150, savings 50.
C8_FallbackLiteral ==
    (pc = "done" /\ TokenValues(price_matches) = <<10000, 15000, 1000>>)
        => /\ prices.current_price = Some(10000)
           /\ prices.original_price = Some(15000)
           /\ prices.savings = Some(5000)

\* The result of the two-value logic on (1000, 1500)
FallbackResult(r) ==
    /\ r.current_price = Some(100000)
    /\ r.original_price = Some(150000)
    /\ r.savings = Some(50000)
    /\ r.discount_percentage = Some(3333)

\* C8 amended: a text whose plausible price values begin (1000, 1500, c),
\* where c differs from 1500 - 1000 by more than the tolerance of 2, falls
\* back to the two-value logic: current 1000, original 1500, savings 500;
\* the values (100, 150, 10) are all rejected by the range filter and parse
\* to no price at all.
C8_FallbackInRange ==
    pc = "done" =>
        /\ ( /\ Len(price_values) >= 3
             /\ BeginsWith(price_values, <<100000, 150000>>)
             /\ Abs(50000 - price_values[3]) > Tolerance )
              => FallbackResult(prices)
        /\ ( /\ Len(simple_price_values) >= 3
             /\ BeginsWith(simple_price_values, <<100000, 150000>>)
             /\ Abs(50000 - simple_price_values[3]) > Tolerance )
              => FallbackResult(simple_prices)
        /\ TokenValues(price_matches) = <<10000, 15000, 1000>>
              => prices = NoPrices /\ simple_prices = NoPrices

\* C8 witness: the plausible values 1000, 1500, 1150 (1150 is not 500) parsed
\* by the fallback.
C8_Witness ==
    /\ pc = "done"
    /\ price_values = <<100000, 150000, 115000>>
    /\ FallbackResult(prices)

\* The in-range values of a list of token values, in text order
RECURSIVE InRangeValues(_)
InRangeValues(tv) ==
    IF tv = <<>> THEN <<>>
    ELSE (IF InWindow(Head(tv)) THEN <<Head(tv)>> ELSE <<>>) \o InRangeValues(Tail(tv))

\* The result on two values: (v1, v2, v2 - v1) when v2 > v1, else v1 alone
IsTwoValueResult(r, v1, v2) ==
    IF v2 > v1
    THEN /\ r.current_price = Some(v1)
         /\ r.original_price = Some(v2)
         /\ r.savings = Some(v2 - v1)
         /\ Len(r.discount_percentage) = 1
         /\ IsNearestPct(r.discount_percentage[1], v2 - v1, v2)
    ELSE r = [current_price |-> Some(v1), original_price |-> None,
              savings |-> None, discount_percentage |-> None]

\* The count-based function of the spec, of the list v of in-range values
IsCountBasedResult(r, v) ==
    IF Len(v) = 0
    THEN r = [current_price |-> None, original_price |-> None,
              savings |-> None, discount_percentage |-> None]
    ELSE IF Len(v) = 1
    THEN r = [current_price |-> Some(v[1]), original_price |-> None,
              savings |-> None, discount_percentage |-> None]
    ELSE IF Len(v) = 2 THEN IsTwoValueResult(r, v[1], v[2])
    ELSE IF (v[2] - v[1]) - v[3] <= 2 * 100 /\ v[3] - (v[2] - v[1]) <= 2 * 100
         THEN /\ r.current_price = Some(v[1])
              /\ r.original_price = Some(v[2])
              /\ r.savings = Some(v[3])
              /\ Len(r.discount_percentage) = 1
              /\ IsNearestPct(r.discount_percentage[1], v[3], v[2])
         ELSE IsTwoValueResult(r, v[1], v[2])

\* C17: the output of each parser is the count-based function of the list of
\* in-range values in text order: no value, one value, two values (v2 > v1
\* or not), three or more values (within the tolerance of 2 or the two-value
\* result on the first two); values after the third do not matter.
C17_CountBased ==
    pc = "done" =>
        /\ IsCountBasedResult(prices, InRangeValues(TokenValues(price_matches)))
        /\ IsCountBasedResult(simple_prices,
                              InRangeValues(TokenValues(simple_price_matches)))
        /\ LET v == InRangeValues(TokenValues(price_matches))
           IN  Len(v) > 3 => IsCountBasedResult(prices, SubSeq(v, 1, 3))

\* C17 witness: four in-range values 1000, 1500, 500, 1150; the fourth is
\* ignored and the first three are current, original and savings.
C17_Witness ==
    /\ pc = "done"
    /\ price_values = <<100000, 150000, 50000, 115000>>
    /\ prices = [current_price |-> Some(100000), original_price |-> Some(150000),
                 savings |-> Some(50000), discount_percentage |-> Some(3333)]
    /\ simple_prices = prices

-----------------------------------------------------------------------------
(* The field standardizer: _standardize_storage_format *)

\* float(text) of a decimal text: the whole part and the fraction digits
\* without trailing zeros; None when float() raises ValueError
RECURSIVE DropTrailingZeros(_)
DropTrailingZeros(s) ==
    IF s # <<>> /\ s[Len(s)] = "0" THEN DropTrailingZeros(SubSeq(s, 1, Len(s) - 1)) ELSE s

ParseFloat(text) ==
    LET t == Strip(text)
        e == RunEnd(t, 1, DigitChars)
        whole == SubSeq(t, 1, e - 1)
        frac == SubSeq(t, e + 1, Len(t))
    IN  IF e > Len(t)
        THEN (IF whole = <<>> THEN None
              ELSE Some([whole |-> DigitsValue(whole), frac |-> <<>>]))
        ELSE IF /\ t[e] = "."
                /\ RunEnd(frac, 1, DigitChars) > Len(frac)
                /\ (whole # <<>> \/ frac # <<>>)
        THEN Some([whole |-> DigitsValue(whole), frac |-> DropTrailingZeros(frac)])
        ELSE None

TB == <<"T", "B">>

\* A conversion to TB for every value from 1000 GB up, multiple of 1000 or not
StandardizeStorageFormatAnyTB(text) ==
    IF text = <<>> THEN <<>>
    ELSE LET gb_value == ParseFloat(text)
         IN  IF gb_value = None THEN text
             ELSE IF gb_value[1].whole >= 1000
             THEN NatToStr(gb_value[1].whole \div 1000) \o TB
             ELSE IF gb_value[1].frac = <<>> THEN NatToStr(gb_value[1].whole)
             ELSE NatToStr(gb_value[1].whole) \o <<".">> \o gb_value[1].frac

\* AppleDataStandardizer._standardize_storage_format
StandardizeStorageFormat(text) ==
    IF text = <<>> THEN <<>>
    ELSE LET gb_value == ParseFloat(text)
         IN  IF gb_value = None THEN text
             ELSE IF /\ gb_value[1].whole >= 1000
                     /\ gb_value[1].frac = <<>>
                     /\ gb_value[1].whole % 1000 = 0
             THEN NatToStr(gb_value[1].whole \div 1000) \o TB
             ELSE IF gb_value[1].frac = <<>> THEN NatToStr(gb_value[1].whole)
             ELSE NatToStr(gb_value[1].whole) \o <<".">> \o gb_value[1].frac

\* The largest storage value given to the function, in GB
MaxStorageGB == 2100

\* The arguments: str() of a whole number of GB (as the caller passes it at
\* histv7.py:852), the same with a fraction, the empty string and a text
\* that is no number (as the caller may pass at histv7.py:854)
StorageInputs ==
    {NatToStr(g) : g \in 0..MaxStorageGB}
    \cup {NatToStr(g) \o <<".", "0">> : g \in 0..MaxStorageGB}
    \cup {NatToStr(g) \o <<".", "5">> : g \in 0..MaxStorageGB}
    \cup {<<>>, <<"S", "S", "D">>, <<"1", ".", "5", ".", "0">>, <<".">>}

InitStorage ==
    /\ pc = "start"
    /\ storage_gb \in StorageInputs
    /\ storage_out = <<>>
    /\ name = <<>>
    /\ machine_type = <<>>
    /\ IdlePrice
    /\ IdleDetect
    /\ IdleLater

\* One call of _standardize_storage_format
FormatStorage ==
    /\ pc = "start"
    /\ storage_out' = StandardizeStorageFormat(storage_gb)
    /\ pc' = "done"
    /\ UNCHANGED <<storage_gb, name, machine_type, price_vars, detect_vars, later_vars>>

NextStorage == FormatStorage

SpecStorage == InitStorage /\ [][NextStorage]_vars

(* Claims about the storage format, checked under SpecStorage *)

\* The text is the decimal numeral of the whole number g, with or without ".0"
IsNumeralOf(text, g) ==
    \/ text = NatToStr(g)
    \/ text = NatToStr(g) \o <<".", "0">>

-----------------------------------------------------------------------------
(* The field standardizer: _standardize_machine_type *)

\* The family keywords the function looks for in the normalised name
kw_macbook_air == <<"m", "a", "c", "b", "o", "o", "k", " ", "a", "i", "r">>
kw_macbook_pro == <<"m", "a", "c", "b", "o", "o", "k", " ", "p", "r", "o">>
kw_imac == <<"i", "m", "a", "c">>
kw_mac_mini == <<"m", "a", "c", " ", "m", "i", "n", "i">>
kw_mac_studio == <<"m", "a", "c", " ", "s", "t", "u", "d", "i", "o">>
kw_mac_pro == <<"m", "a", "c", " ", "p", "r", "o">>
kw_ipad_pro == <<"i", "p", "a", "d", " ", "p", "r", "o">>
kw_ipad_air == <<"i", "p", "a", "d", " ", "a", "i", "r">>
kw_ipad_mini == <<"i", "p", "a", "d", " ", "m", "i", "n", "i">>
kw_ipad == <<"i", "p", "a", "d">>
kw_iphone == <<"i", "p", "h", "o", "n", "e">>

\* The values the function returns, before a screen size is appended
MacBookAir == <<"M", "a", "c", "B", "o", "o", "k", " ", "A", "i", "r">>
MacBookPro == <<"M", "a", "c", "B", "o", "o", "k", " ", "P", "r", "o">>
IMac == <<"i", "M", "a", "c">>
MacMini == <<"M", "a", "c", " ", "m", "i", "n", "i">>
MacStudio == <<"M", "a", "c", " ", "S", "t", "u", "d", "i", "o">>
MacPro == <<"M", "a", "c", " ", "P", "r", "o">>
IPadPro == <<"i", "P", "a", "d", " ", "P", "r", "o">>
IPadAir == <<"i", "P", "a", "d", " ", "A", "i", "r">>
IPadMini == <<"i", "P", "a", "d", " ", "m", "i", "n", "i">>
IPad == <<"i", "P", "a", "d">>
IPhone == <<"i", "P", "h", "o", "n", "e">>
Unknown == <<"U", "n", "k", "n", "o", "w", "n">>

DashInch == <<"-", "i", "n", "c", "h">>
Inch == <<"i", "n", "c", "h">>

\* str(name).replace(U+2011, '-').replace(U+00A0, ' ').lower()
NameNormalized(text) == Lower(Replace(Replace(text, <<NBHY>>, <<"-">>), <<NBSP>>, <<" ">>))

\* \d+(?:\.\d+)? matched at position i of s: the end (exclusive) of the digits
\* and the end of the optional fraction (the same when there is none)
NumberEnds(s, i) ==
    LET j == RunEnd(s, i, DigitChars)
        k == IF j <= Len(s) /\ s[j] = "." THEN RunEnd(s, j + 1, DigitChars) ELSE j
    IN  <<j, IF k > j + 1 THEN k ELSE j>>

\* re.search of  (\d+(?:\.\d+)?) sep inch  in s, where sep is "-" (dash) or
\* \s* : the captured number of the leftmost match from position i on, or
\* None.  The fraction is tried first, then the digits alone.
RECURSIVE SizeSearch(_, _, _)
SizeSearch(s, i, dash) ==
    LET digits == {k \in i..Len(s) : IsDigit(s[k])}
    IN  IF digits = {} THEN None
        ELSE LET k == FirstOf(digits)
                 ends == NumberEnds(s, k)
                 TailAt(e) == IF dash THEN OccursAt(s, DashInch, e)
                              ELSE OccursAt(s, Inch, RunEnd(s, e, {" "}))
             IN  IF TailAt(ends[2]) THEN Some(SubSeq(s, k, ends[2] - 1))
                 ELSE IF TailAt(ends[1]) THEN Some(SubSeq(s, k, ends[1] - 1))
                 ELSE SizeSearch(s, k + 1, dash)

\* The loop over size_patterns: screen_size, '' when neither pattern matches
ScreenSize(n) ==
    LET first == SizeSearch(n, 1, TRUE)
        second == SizeSearch(n, 1, FALSE)
    IN  IF first # None THEN first[1] \o DashInch
        ELSE IF second # None THEN second[1] \o DashInch
        ELSE <<>>

\* A family that never shows the size: the default whatever was found
WithSizeIgnored(base_type, screen_size, default) == default

\* f"{base_type} {screen_size}" when a size was found, else the default
WithSize(base_type, screen_size, default) ==
    IF screen_size # <<>> THEN base_type \o <<" ">> \o screen_size ELSE default

\* The alternation (pro\s*max|pro|plus|mini) matched at position i of s: the
\* end (exclusive) of the match, 0 when no alternative matches
VariantEnd(s, i) ==
    LET afterPro == RunEnd(s, i + 3, {" "})
    IN  IF OccursAt(s, <<"p", "r", "o">>, i) /\ OccursAt(s, <<"m", "a", "x">>, afterPro)
        THEN afterPro + 3
        ELSE IF OccursAt(s, <<"p", "r", "o">>, i) THEN i + 3
        ELSE IF OccursAt(s, <<"p", "l", "u", "s">>, i) THEN i + 4
        ELSE IF OccursAt(s, <<"m", "i", "n", "i">>, i) THEN i + 4
        ELSE 0

\* re.search(r'iphone\s*(\d+)\s*(pro\s*max|pro|plus|mini)?', s) from position
\* i on: the pair (model number, variant or ''), or None
RECURSIVE IPhoneSearch(_, _)
IPhoneSearch(s, i) ==
    LET starts == {k \in i..Len(s) : OccursAt(s, kw_iphone, k)}
    IN  IF starts = {} THEN None
        ELSE LET k == FirstOf(starts)
                 d == RunEnd(s, k + 6, {" "})
                 e == RunEnd(s, d, DigitChars)
                 v == RunEnd(s, e, {" "})
                 w == VariantEnd(s, v)
             IN  IF e > d
                 THEN Some(<<SubSeq(s, d, e - 1),
                             IF w = 0 THEN <<>> ELSE SubSeq(s, v, w - 1)>>)
                 ELSE IPhoneSearch(s, k + 1)

\* variant.replace('pro max', 'Pro Max').replace('pro', 'Pro')
\*        .replace('plus', 'Plus').replace('mini', 'mini')
VariantName(variant) ==
    Replace(Replace(Replace(Replace(variant,
        <<"p", "r", "o", " ", "m", "a", "x">>, <<"P", "r", "o", " ", "M", "a", "x">>),
        <<"p", "r", "o">>, <<"P", "r", "o">>),
        <<"p", "l", "u", "s">>, <<"P", "l", "u", "s">>),
        <<"m", "i", "n", "i">>, <<"m", "i", "n", "i">>)

\* The iPhone branch
IPhoneType(n) ==
    LET m == IPhoneSearch(n, 1)
    IN  IF m = None THEN IPhone
        ELSE IF m[1][2] # <<>>
        THEN IPhone \o <<" ">> \o m[1][1] \o <<" ">> \o VariantName(m[1][2])
        ELSE IPhone \o <<" ">> \o m[1][1]

\* The chain with the bare iPad test ahead of the iPad sub-types
ClassifyGenericFirst(n, screen_size) ==
    IF Contains(n, kw_macbook_air) THEN WithSize(MacBookAir, screen_size, MacBookAir \o <<" ", "1", "3", "-", "i", "n", "c", "h">>)
    ELSE IF Contains(n, kw_macbook_pro) THEN WithSize(MacBookPro, screen_size, MacBookPro)
    ELSE IF Contains(n, kw_imac) THEN WithSize(IMac, screen_size, IMac)
    ELSE IF Contains(n, kw_mac_mini) THEN MacMini
    ELSE IF Contains(n, kw_mac_studio) THEN MacStudio
    ELSE IF Contains(n, kw_mac_pro) THEN MacPro
    ELSE IF Contains(n, kw_ipad) THEN WithSize(IPad, screen_size, IPad)
    ELSE IF Contains(n, kw_ipad_pro) THEN WithSize(IPadPro, screen_size, IPadPro)
    ELSE IF Contains(n, kw_ipad_air) THEN WithSize(IPadAir, screen_size, IPadAir)
    ELSE IF Contains(n, kw_ipad_mini) THEN IPadMini
    ELSE IF Contains(n, kw_iphone) THEN IPhoneType(n)
    ELSE Unknown

\* The if / elif chain over the family keywords, in the code's order
Classify(n, screen_size) ==
    IF Contains(n, kw_macbook_air) THEN WithSize(MacBookAir, screen_size, MacBookAir \o <<" ", "1", "3", "-", "i", "n", "c", "h">>)
    ELSE IF Contains(n, kw_macbook_pro) THEN WithSize(MacBookPro, screen_size, MacBookPro)
    ELSE IF Contains(n, kw_imac) THEN WithSize(IMac, screen_size, IMac)
    ELSE IF Contains(n, kw_mac_mini) THEN MacMini
    ELSE IF Contains(n, kw_mac_studio) THEN MacStudio
    ELSE IF Contains(n, kw_mac_pro) THEN MacPro
    ELSE IF Contains(n, kw_ipad_pro) THEN WithSize(IPadPro, screen_size, IPadPro)
    ELSE IF Contains(n, kw_ipad_air) THEN WithSize(IPadAir, screen_size, IPadAir)
    ELSE IF Contains(n, kw_ipad_mini) THEN IPadMini
    ELSE IF Contains(n, kw_ipad) THEN WithSize(IPad, screen_size, IPad)
    ELSE IF Contains(n, kw_iphone) THEN IPhoneType(n)
    ELSE Unknown

\* AppleDataStandardizer._standardize_machine_type
StandardizeMachineType(text) ==
    IF text = <<>> THEN Unknown
    ELSE LET name_normalized == NameNormalized(text)
         IN  Classify(name_normalized, ScreenSize(name_normalized))

-----------------------------------------------------------------------------
(* Machine classification applied to bounded product names *)

\* The pieces a product name is put together from.  A listing title names one
\* product: a name holds at most one family piece and at most one size piece.
FamilyChunks ==
    { <<" ", "i", "P", "a", "d">>,
      <<" ", "M", "a", "c", "B", "o", "o", "k">>,
      <<" ", "i", "M", "a", "c">>,
      <<" ", "M", "a", "c">>,
      <<" ", "i", "P", "h", "o", "n", "e", " ", "1", "5">> }

SizeChunks ==
    { <<" ", "1", "1", NBHY, "i", "n", "c", "h">>,
      <<" ", "1", "2", ".", "9", "-", "i", "n", "c", "h">>,
      <<" ", "1", "3", " ", "i", "n", "c", "h">> }

OtherChunks ==
    { <<" ", "P", "r", "o">>,
      <<NBSP, "A", "i", "r">>,
      <<" ", "m", "i", "n", "i">>,
      <<" ", "S", "t", "u", "d", "i", "o">>,
      <<"R", "e", "f", "u", "r", "b", "i", "s", "h", "e", "d">> }

NameChunks == FamilyChunks \cup SizeChunks \cup OtherChunks

\* The number of pieces of a product name
MaxNameParts == 4

\* The number of positions of cs that hold a piece of the set S
CountIn(cs, S) == Cardinality({i \in 1..Len(cs) : cs[i] \in S})

ProductNames ==
    {Cat(cs) : cs \in {c \in SeqsUpTo(NameChunks, MaxNameParts) :
                            CountIn(c, FamilyChunks) <= 1 /\ CountIn(c, SizeChunks) <= 1}}

InitMachine ==
    /\ pc = "start"
    /\ name \in ProductNames
    /\ machine_type = <<>>
    /\ storage_gb = <<>>
    /\ storage_out = <<>>
    /\ IdlePrice
    /\ IdleDetect
    /\ IdleLater

\* One call of _standardize_machine_type
ClassifyMachine ==
    /\ pc = "start"
    /\ machine_type' = StandardizeMachineType(name)
    /\ pc' = "done"
    /\ UNCHANGED <<name, storage_gb, storage_out, price_vars, detect_vars, later_vars>>

NextMachine == ClassifyMachine

SpecMachine == InitMachine /\ [][NextMachine]_vars

(* Claims about machine classification, checked under SpecMachine *)

\* The generic family result: "iPad" alone or "iPad <size>"
IsGenericIPad(m) ==
    \/ m = IPad
    \/ /\ Len(m) > 5
       /\ SubSeq(m, 1, 5) = <<"i", "P", "a", "d", " ">>
       /\ IsDigit(m[6])

\* The text n matches none of the family keywords
NoFamilyKeyword(n) ==
    /\ ~Contains(n, kw_macbook_air) /\ ~Contains(n, kw_macbook_pro)
    /\ ~Contains(n, kw_imac) /\ ~Contains(n, kw_mac_mini)
    /\ ~Contains(n, kw_mac_studio) /\ ~Contains(n, kw_mac_pro)
    /\ ~Contains(n, kw_ipad) /\ ~Contains(n, kw_iphone)

\* C10: a specific iPad keyword (iPad Pro, iPad Air, iPad mini) wins over
\* the bare iPad it contains; a name containing both "iPad Pro" and
\* "11-inch" classifies as "iPad Pro 11-inch", never as "iPad 11-inch"; a
\* name matching no family keyword classifies as "Unknown".  (n is the name
\* in lower case with its Unicode hyphens and spaces made ASCII.)
C10_SpecificBeforeGeneric ==
    pc = "done" =>
        LET n == NameNormalized(name)
            pro == Contains(n, kw_ipad_pro)
            air == Contains(n, kw_ipad_air)
            mini == Contains(n, kw_ipad_mini)
        IN  /\ (pro \/ air \/ mini) => ~IsGenericIPad(machine_type)
            /\ pro => BeginsWith(machine_type, IPadPro)
            /\ (air /\ ~pro) => BeginsWith(machine_type, IPadAir)
            /\ (mini /\ ~pro /\ ~air) => machine_type = IPadMini
            /\ (pro /\ Contains(n, <<"1", "1", "-", "i", "n", "c", "h">>))
                  => machine_type = <<"i", "P", "a", "d", " ", "P", "r", "o", " ", "1", "1", "-", "i", "n", "c", "h">>
            /\ NoFamilyKeyword(n) => machine_type = Unknown

\* C10 witness: a name with "iPad Pro" after the size "11-inch", written with
\* the non-breaking hyphen, classified as "iPad Pro 11-inch".
C10_Witness ==
    /\ pc = "done"
    /\ name = <<"R", "e", "f", "u", "r", "b", "i", "s", "h", "e", "d", " ", "1", "1", NBHY, "i", "n", "c", "h", " ", "i", "P", "a", "d", " ", "P", "r", "o">>
    /\ machine_type = <<"i", "P", "a", "d", " ", "P", "r", "o", " ", "1", "1", "-", "i", "n", "c", "h">>

-----------------------------------------------------------------------------
(* The change detector: detect_and_log_changes and detect_changes *)

\* The value of a current_price field: absent (None, a missing key or the
\* empty cell ''), a number (in pence), or a text float() does not accept
NoPrice == [kind |-> "none", val |-> 0]
Num(n) == [kind |-> "num", val |-> n]
TextPrice == [kind |-> "text", val |-> 0]

\* float(price or 0): None when float() raises ValueError
ToFloat(p) ==
    IF p.kind = "text" THEN None
    ELSE IF p.kind = "none" THEN Some(0)
    ELSE Some(p.val)

\* A dict is the sequence of its items, in insertion order
Keys(d) == {d[i].key : i \in 1..Len(d)}

Get(d, k) == d[CHOOSE i \in 1..Len(d) : d[i].key = k].value

\* d[k] = v
Put(d, k, v) ==
    IF k \in Keys(d)
    THEN [i \in 1..Len(d) |-> IF d[i].key = k THEN [key |-> k, value |-> v] ELSE d[i]]
    ELSE Append(d, [key |-> k, value |-> v])

\* {p.get('model_sku'): p for p in current_products if p.get('model_sku')}
RECURSIVE CurrentLookupFrom(_, _)
CurrentLookupFrom(products, d) ==
    IF products = <<>> THEN d
    ELSE LET p == Head(products)
         IN  CurrentLookupFrom(Tail(products),
                               IF p.model_sku # None THEN Put(d, p.model_sku[1], p) ELSE d)

\* A lookup that keeps one item per product with a SKU, repeated SKUs too
RECURSIVE CurrentLookupEveryOccurrence(_)
CurrentLookupEveryOccurrence(products) ==
    IF products = <<>> THEN <<>>
    ELSE (IF Head(products).model_sku # None
          THEN <<[key |-> Head(products).model_sku[1], value |-> Head(products)]>>
          ELSE <<>>)
         \o CurrentLookupEveryOccurrence(Tail(products))

CurrentLookup(products) == CurrentLookupFrom(products, <<>>)

\* The items of the dict d whose key is not a key of the dict other
RECURSIVE ItemsNotIn(_, _)
ItemsNotIn(d, other) ==
    IF d = <<>> THEN <<>>
    ELSE (IF Head(d).key \notin Keys(other) THEN <<Head(d)>> ELSE <<>>)
         \o ItemsNotIn(Tail(d), other)

\* One row of availability_changes
AvailabilityRow(timestamp, item, change_type) ==
    [timestamp |-> timestamp, model_sku |-> item.key, name |-> item.value.name,
     change_type |-> change_type, price |-> item.value.current_price]

\* Availability loops that lost the loop over previous_data
AvailabilityChangesAppearedOnly(timestamp, current_lookup, previous) ==
    LET appeared == ItemsNotIn(current_lookup, previous)
    IN  [i \in 1..Len(appeared) |-> AvailabilityRow(timestamp, appeared[i], "APPEARED")]

\* The rows of the two availability loops: APPEARED in the order of
\* current_lookup, then DISAPPEARED in the order of previous_data
AvailabilityChanges(timestamp, current_lookup, previous) ==
    LET appeared == ItemsNotIn(current_lookup, previous)
        disappeared == ItemsNotIn(previous, current_lookup)
    IN  [i \in 1..Len(appeared) |-> AvailabilityRow(timestamp, appeared[i], "APPEARED")]
        \o [i \in 1..Len(disappeared) |->
               AvailabilityRow(timestamp, disappeared[i], "DISAPPEARED")]

\* A comparison without the tests for a zero price
PriceDiffersNoZeroTest(current_price, previous_price) ==
    current_price # previous_price

\* The comparison of the price loop, for two prices float() accepted
PriceDiffers(current_price, previous_price) ==
    /\ current_price # previous_price
    /\ current_price > 0
    /\ previous_price > 0

\* The body of the price loop for one item of current_lookup: the row it
\* appends, if any
PriceRow(timestamp, item, previous, increase, decrease) ==
    IF item.key \notin Keys(previous) THEN <<>>
    ELSE LET current_price == ToFloat(item.value.current_price)
             previous_price == ToFloat(Get(previous, item.key).current_price)
         IN  IF current_price = None \/ previous_price = None THEN <<>>
             ELSE IF PriceDiffers(current_price[1], previous_price[1])
             THEN << [timestamp |-> timestamp, model_sku |-> item.key,
                      name |-> item.value.name,
                      change_type |-> IF current_price[1] - previous_price[1] > 0
                                      THEN increase ELSE decrease,
                      old_price |-> previous_price[1],
                      new_price |-> current_price[1],
                      change_amount |-> current_price[1] - previous_price[1]] >>
             ELSE <<>>

\* A price loop that subtracts the new price from the old one
RECURSIVE PriceChangesOldMinusNew(_, _, _, _, _)
PriceChangesOldMinusNew(timestamp, current_lookup, previous, increase, decrease) ==
    IF current_lookup = <<>> THEN <<>>
    ELSE LET row == PriceRow(timestamp, Head(current_lookup), previous, decrease, increase)
         IN  [i \in 1..Len(row) |->
                [row[i] EXCEPT !.change_amount = row[i].old_price - row[i].new_price]]
             \o PriceChangesOldMinusNew(timestamp, Tail(current_lookup), previous,
                                        increase, decrease)

\* The rows of the price loop, in the order of current_lookup
RECURSIVE PriceChanges(_, _, _, _, _)
PriceChanges(timestamp, current_lookup, previous, increase, decrease) ==
    IF current_lookup = <<>> THEN <<>>
    ELSE PriceRow(timestamp, Head(current_lookup), previous, increase, decrease)
         \o PriceChanges(timestamp, Tail(current_lookup), previous, increase, decrease)

\* The rows a logging step leaves in a history sheet.  histv7 appends the
\* rows in one batch call whose failure is swallowed: all of them or none.
\* simple_scraper appends row by row inside one try: a failure at some row
\* leaves the rows before it.  given is the number of rows the store takes.
Logged(sheet, rows, row_by_row, given) ==
    IF row_by_row THEN sheet \o SubSeq(rows, 1, given)
    ELSE IF given = Len(rows) THEN sheet \o rows
    ELSE sheet

\* What one detection call does, but for its two arguments: an early return
\* without a store client; else the three loops and the two logging steps
DetectCall(increase, decrease, row_by_row) ==
    /\ Len(calls) < 2
    /\ clock' = clock + 1
    /\ pc' = IF Len(calls) = 1 THEN "done" ELSE "called"
    /\ IF ~google_client
       THEN /\ calls' = Append(calls, [detected |-> FALSE, price_changes |-> <<>>,
                                      availability_changes |-> <<>>])
            /\ UNCHANGED <<price_changes, availability_changes,
                           price_history, availability_history>>
       ELSE LET current_lookup == CurrentLookup(current_products)
                found_prices == PriceChanges(clock, current_lookup, previous_data,
                                             increase, decrease)
                found_availability == AvailabilityChanges(clock, current_lookup,
                                                          previous_data)
            IN  /\ price_changes' = found_prices
                /\ availability_changes' = found_availability
                /\ calls' = Append(calls, [detected |-> TRUE,
                                           price_changes |-> found_prices,
                                           availability_changes |-> found_availability])
                /\ \E given \in 0..Len(found_prices) :
                      price_history' = Logged(price_history, found_prices,
                                              row_by_row, given)
                /\ \E given \in 0..Len(found_availability) :
                      availability_history' = Logged(availability_history,
                                                     found_availability,
                                                     row_by_row, given)
    /\ UNCHANGED <<scraper, google_client, price_vars, std_vars, later_vars>>

\* A detection call that also records each appeared product in previous_data
DetectAndLogChangesRecordingAppeared ==
    /\ scraper = "histv7"
    /\ DetectCall("PRICE_INCREASE", "PRICE_DECREASE", FALSE)
    /\ previous_data' =
          IF google_client
          THEN previous_data
               \o [i \in 1..Len(ItemsNotIn(CurrentLookup(current_products), previous_data)) |->
                     LET item == ItemsNotIn(CurrentLookup(current_products), previous_data)[i]
                     IN  [key |-> item.key,
                          value |-> [name |-> item.value.name,
                                     current_price |-> item.value.current_price]]]
          ELSE previous_data
    /\ UNCHANGED current_products

\* AppleMacScraperV7Historical.detect_and_log_changes
DetectAndLogChanges ==
    /\ scraper = "histv7"
    /\ DetectCall("PRICE_INCREASE", "PRICE_DECREASE", FALSE)
    /\ UNCHANGED <<current_products, previous_data>>

\* SimpleAppleScraper.detect_changes
DetectChanges ==
    /\ scraper = "simple"
    /\ DetectCall("INCREASE", "DECREASE", TRUE)
    /\ UNCHANGED <<current_products, previous_data>>

-----------------------------------------------------------------------------
(* Change detection applied to bounded product lists and snapshots *)

SKUs == {"SKU1", "SKU2"}

ProductName == [SKU1 |-> "MacBook Air M1", SKU2 |-> "iMac M3"]

\* The prices of scraped products: absent, zero, or a value of the price
\* parser's range, in pence
CurrentPrices == {NoPrice, Num(0), Num(84900), Num(129900)}

\* The prices of snapshot records: an empty cell, zero, a number in pence, or
\* a text that is no number
PreviousPrices == {NoPrice, Num(0), Num(84900), Num(89900), TextPrice}

\* The scraped products: with a SKU, or without one
Products ==
    {[model_sku |-> Some(s), name |-> ProductName[s], current_price |-> p] :
        s \in SKUs, p \in CurrentPrices}
    \cup {[model_sku |-> None, name |-> "Refurbished Mac", current_price |-> p] :
            p \in CurrentPrices}

\* The number of products in the current list
MaxProducts == 2

\* The snapshots load_previous_data builds: one item per SKU, in any order
Snapshots ==
    {d \in SeqsUpTo({[key |-> s, value |-> [name |-> ProductName[s], current_price |-> p]] :
                        s \in SKUs, p \in PreviousPrices}, Cardinality(SKUs)) :
        \A i, j \in 1..Len(d) : d[i].key = d[j].key => i = j}

InitDetect ==
    /\ pc = "start"
    /\ scraper \in {"histv7", "simple"}
    /\ google_client \in BOOLEAN
    /\ current_products \in SeqsUpTo(Products, MaxProducts)
    /\ previous_data \in Snapshots
    /\ price_changes = <<>>
    /\ availability_changes = <<>>
    /\ price_history = <<>>
    /\ availability_history = <<>>
    /\ clock = 0
    /\ calls = <<>>
    /\ IdlePrice
    /\ IdleStd
    /\ IdleLater

NextDetect == DetectAndLogChanges \/ DetectChanges

SpecDetect == InitDetect /\ [][NextDetect]_vars

(* Claims about change detection, checked under SpecDetect *)

\* A detection call has run with the store available
Detected == calls # <<>> /\ google_client

\* The SKUs of the current product list and of the previous snapshot
CurrentSKUs == {s \in SKUs : \E i \in 1..Len(current_products) :
                                 current_products[i].model_sku = Some(s)}

PreviousSKUs == {s \in SKUs : \E i \in 1..Len(previous_data) : previous_data[i].key = s}

\* The rows of a list of events with the given SKU and change type
RowsOf(rows, s, change_type) ==
    {i \in 1..Len(rows) : rows[i].model_sku = s /\ rows[i].change_type = change_type}

\* C1: in one detection call with the store available, there is exactly one
\* APPEARED event per SKU of the current lookup that the previous snapshot
\* lacks, exactly one DISAPPEARED event per SKU of the previous snapshot that
\* the current lookup lacks, and no other availability event.
C1_AvailabilityEvents ==
    Detected =>
        /\ \A s \in SKUs :
              /\ Cardinality(RowsOf(availability_changes, s, "APPEARED"))
                    = IF s \in CurrentSKUs \ PreviousSKUs THEN 1 ELSE 0
              /\ Cardinality(RowsOf(availability_changes, s, "DISAPPEARED"))
                    = IF s \in PreviousSKUs \ CurrentSKUs THEN 1 ELSE 0
        /\ \A i \in 1..Len(availability_changes) :
              /\ availability_changes[i].model_sku \in SKUs
              /\ availability_changes[i].change_type \in {"APPEARED", "DISAPPEARED"}

\* C1 witness: one call in which SKU2, listed twice, appeared and SKU1
\* disappeared.
C1_Witness ==
    /\ Detected
    /\ Len(current_products) = 2
    /\ CurrentSKUs = {"SKU2"}
    /\ PreviousSKUs = {"SKU1"}
    /\ Len(availability_changes) = 2
    /\ availability_changes[1].change_type = "APPEARED"
    /\ availability_changes[2].change_type = "DISAPPEARED"

\* The current_price of the last product of the list with the SKU s
LastPriceOf(s) ==
    LET places == {i \in 1..Len(current_products) :
                     current_products[i].model_sku = Some(s)}
    IN  current_products[CHOOSE i \in places : \A j \in places : j <= i].current_price

PreviousPriceOf(s) ==
    previous_data[CHOOSE i \in 1..Len(previous_data) : previous_data[i].key = s]
        .value.current_price

\* Both prices are present as numbers, non-zero and different
PricesQualify(new, old) ==
    /\ new.kind = "num" /\ old.kind = "num"
    /\ new.val # 0 /\ old.val # 0
    /\ new.val # old.val

\* C2: for every SKU in both the current products and the previous snapshot,
\* detection emits a price event if and only if both current_price values are
\* present (as numbers), non-zero and different: PRICE_INCREASE when
\* new > old, PRICE_DECREASE when new < old, change_amount = new - old.
C2_PriceEvents ==
    (Detected /\ scraper = "histv7") =>
        /\ \A s \in CurrentSKUs \cap PreviousSKUs :
              LET new == LastPriceOf(s)
                  old == PreviousPriceOf(s)
                  rows == {i \in 1..Len(price_changes) : price_changes[i].model_sku = s}
              IN  IF PricesQualify(new, old)
                  THEN /\ Cardinality(rows) = 1
                       /\ \A i \in rows :
                             /\ price_changes[i].change_type =
                                   IF new.val > old.val THEN "PRICE_INCREASE"
                                   ELSE "PRICE_DECREASE"
                             /\ price_changes[i].change_amount = new.val - old.val
                             /\ price_changes[i].old_price = old.val
                             /\ price_changes[i].new_price = new.val
                  ELSE rows = {}
        /\ \A i \in 1..Len(price_changes) :
              price_changes[i].model_sku \in CurrentSKUs \cap PreviousSKUs

\* C2 witness: both SKUs are in both; SKU1 went from 849 to 1299 and has one
\* PRICE_INCREASE event, SKU2 has an unparseable old price and has none.
C2_Witness ==
    /\ Detected
    /\ scraper = "histv7"
    /\ CurrentSKUs = SKUs
    /\ PreviousSKUs = SKUs
    /\ PreviousPriceOf("SKU2") = TextPrice
    /\ LastPriceOf("SKU2") = Num(129900)
    /\ Len(price_changes) = 1
    /\ price_changes[1].model_sku = "SKU1"
    /\ price_changes[1].change_type = "PRICE_INCREASE"
    /\ price_changes[1].change_amount = 45000

\* The scenario of C3: previous = {SKU1: 899}, current = [SKU1 at 849,
\* SKU2 at 1299]
Scenario ==
    /\ previous_data = << [key |-> "SKU1",
                           value |-> [name |-> "MacBook Air M1",
                                      current_price |-> Num(89900)]] >>
    /\ current_products =
          << [model_sku |-> Some("SKU1"), name |-> "MacBook Air M1",
              current_price |-> Num(84900)],
             [model_sku |-> Some("SKU2"), name |-> "iMac M3",
              current_price |-> Num(129900)] >>

\* C3: in the scenario, detection produces exactly one PRICE_DECREASE event
\* for SKU1 with change_amount -50, exactly one APPEARED event for SKU2 and
\* no DISAPPEARED event.
C3_Scenario ==
    (Detected /\ scraper = "histv7" /\ Scenario) =>
        /\ Len(price_changes) = 1
        /\ price_changes[1].model_sku = "SKU1"
        /\ price_changes[1].change_type = "PRICE_DECREASE"
        /\ price_changes[1].change_amount = -5000
        /\ Len(availability_changes) = 1
        /\ availability_changes[1].model_sku = "SKU2"
        /\ availability_changes[1].change_type = "APPEARED"

\* C3 witness: the scenario after a detection call that logged both events.
C3_Witness ==
    /\ Detected
    /\ scraper = "histv7"
    /\ Scenario
    /\ Len(price_history) = 1
    /\ price_history[1].old_price = 89900
    /\ price_history[1].new_price = 84900
    /\ Len(availability_history) = 1

\* A list of events without their timestamps
WithoutTime(rows) == [i \in 1..Len(rows) |-> [rows[i] EXCEPT !.timestamp = 0]]

\* C4: detection changes neither the current product list nor the previous
\* snapshot, and two calls on the same pair compute the same events apart
\* from the timestamp.
C4_NoMutationSameEvents ==
    /\ [](Len(calls) = 2 =>
            /\ WithoutTime(calls[1].price_changes) = WithoutTime(calls[2].price_changes)
            /\ WithoutTime(calls[1].availability_changes)
                  = WithoutTime(calls[2].availability_changes))
    /\ [][current_products' = current_products /\ previous_data' = previous_data]_vars

\* C4 witness: two calls, each with a price event and an availability event,
\* stamped with different times.
C4_Witness ==
    /\ Len(calls) = 2
    /\ calls[1].price_changes # <<>>
    /\ calls[1].availability_changes # <<>>
    /\ calls[2].availability_changes # <<>>
    /\ calls[1].availability_changes[1].timestamp
         # calls[2].availability_changes[1].timestamp

-----------------------------------------------------------------------------
(* The variant lookup: load_variant_lookup and find_variant_id_and_model *)

\* int() of a string: None when it raises ValueError
ParseInt(text) ==
    LET t == Strip(text)
    IN  IF t # <<>> /\ RunEnd(t, 1, DigitChars) = Len(t) + 1
        THEN Some(DigitsValue(t)) ELSE None

\* f"{a}|{b}|...": the fields joined by "|"
RECURSIVE JoinFields(_)
JoinFields(fields) ==
    IF Len(fields) = 0 THEN <<>>
    ELSE IF Len(fields) = 1 THEN fields[1]
    ELSE fields[1] \o <<"|">> \o JoinFields(Tail(fields))

\* f"...".lower(): the key of a list of fields
LookupKey(fields) == Lower(JoinFields(fields))

\* str(row['year']) if row['year'] else ''
YearStr(year) == IF year = 0 THEN <<>> ELSE NatToStr(year)

\* The nine-field key of a catalogue row (a NULL column reads as '')
RowKey(row) ==
    LookupKey(<<row.machine, YearStr(row.year), row.cpu, row.cpu_cores, row.storage,
                row.ram, row.gpu, row.colour, row.grade>>)

\* The four-field key of a catalogue row
RowSimpleKey(row) == LookupKey(<<row.machine, row.storage, row.colour, row.grade>>)

\* 'iphone' in machine.lower() or 'ipad' in machine.lower()
IsPhoneOrPad(machine) ==
    Contains(Lower(machine), kw_iphone) \/ Contains(Lower(machine), kw_ipad)

\* The loop of load_variant_lookup that fills self.variant_lookup
RECURSIVE LoadVariantLookup(_, _)
LoadVariantLookup(rows, d) ==
    IF rows = <<>> THEN d
    ELSE LET row == Head(rows)
         IN  LoadVariantLookup(Tail(rows),
                 IF row.cpu # <<>> /\ row.ram # <<>>
                 THEN Put(d, RowKey(row), NatToStr(row.variant_id)) ELSE d)

\* The loop of load_variant_lookup that fills self.variant_lookup_simple
RECURSIVE LoadVariantLookupSimple(_, _)
LoadVariantLookupSimple(rows, d) ==
    IF rows = <<>> THEN d
    ELSE LET row == Head(rows)
         IN  LoadVariantLookupSimple(Tail(rows),
                 IF IsPhoneOrPad(row.machine)
                 THEN Put(d, RowSimpleKey(row), NatToStr(row.variant_id)) ELSE d)

\* The value of the first key of the list that the table holds, '' when it
\* holds none
RECURSIVE FirstPresent(_, _)
FirstPresent(table, keys) ==
    IF keys = <<>> THEN <<>>
    ELSE IF Head(keys) \in Keys(table) THEN Get(table, Head(keys))
    ELSE FirstPresent(table, Tail(keys))

\* The storage of the four-field key: "1TB" becomes "1000", "256GB" "256"
SimpleStorage(hd) ==
    LET storage == IF hd # <<>>
                   THEN Replace(Replace(hd, <<"T", "B">>, <<"0", "0", "0">>), <<"G", "B">>, <<>>)
                   ELSE <<>>
    IN  IF Contains(Upper(hd), <<"T", "B">>)
        THEN LET tb_val == ParseInt(Replace(Upper(hd), <<"T", "B">>, <<>>))
             IN  IF tb_val # None THEN NatToStr(tb_val[1] * 1000) ELSE hd
        ELSE storage

\* The keys the four-field lookup tries, in its order
SimpleLookupKeys(a) ==
    LET storage == SimpleStorage(a.hd)
    IN  << LookupKey(<<a.machine, storage, a.colour, a.grade>>),
           LookupKey(<<a.machine, storage, a.colour, <<"E", "x", "c", "e", "l", "l", "e", "n", "t">>>>),
           LookupKey(<<a.machine, storage, a.colour, <<"G", "o", "o", "d">>>>),
           LookupKey(<<a.machine, storage, a.colour, <<"F", "a", "i", "r">>>>),
           LookupKey(<<a.machine, storage, <<>>, a.grade>>) >>

\* A nine-field lookup that tries the key without Colour before the key
\* without GPU
FullLookupKeysColourFirst(a) ==
    << LookupKey(<<a.machine, a.year, a.cpu, a.cpu_cores, a.hd, a.ram, a.gpu, a.colour, a.grade>>),
       LookupKey(<<a.machine, a.year, a.cpu, a.cpu_cores, a.hd, a.ram, a.gpu, <<>>, a.grade>>),
       LookupKey(<<a.machine, a.year, a.cpu, a.cpu_cores, a.hd, a.ram, <<>>, a.colour, a.grade>>),
       LookupKey(<<a.machine, a.year, a.cpu, a.cpu_cores, a.hd, a.ram, <<>>, <<>>, a.grade>>),
       LookupKey(<<a.machine, a.year, a.cpu, <<>>, a.hd, a.ram, a.gpu, a.colour, a.grade>>) >>

\* The keys the nine-field lookup tries, in its order: lookup_key,
\* lookup_key_no_gpu, lookup_key_no_color, lookup_key_minimal,
\* lookup_key_no_cores
FullLookupKeys(a) ==
    << LookupKey(<<a.machine, a.year, a.cpu, a.cpu_cores, a.hd, a.ram, a.gpu, a.colour, a.grade>>),
       LookupKey(<<a.machine, a.year, a.cpu, a.cpu_cores, a.hd, a.ram, <<>>, a.colour, a.grade>>),
       LookupKey(<<a.machine, a.year, a.cpu, a.cpu_cores, a.hd, a.ram, a.gpu, <<>>, a.grade>>),
       LookupKey(<<a.machine, a.year, a.cpu, a.cpu_cores, a.hd, a.ram, <<>>, <<>>, a.grade>>),
       LookupKey(<<a.machine, a.year, a.cpu, <<>>, a.hd, a.ram, a.gpu, a.colour, a.grade>>) >>

\* The four-field table is consulted: it is not empty (nor None) and the
\* machine is an iPhone or an iPad
UsesSimpleLookup(simple, a) == simple # <<>> /\ IsPhoneOrPad(a.machine)

\* find_variant_id_and_model: the Variant ID it returns (the model it returns
\* is always '').  A table that is None and a table that is empty are both
\* false in the two tests and are both written <<>>.
FindVariantId(simple, full, a) ==
    IF UsesSimpleLookup(simple, a) THEN FirstPresent(simple, SimpleLookupKeys(a))
    ELSE IF full = <<>> THEN <<>>
    ELSE FirstPresent(full, FullLookupKeys(a))

-----------------------------------------------------------------------------
(* The variant lookup applied to bounded catalogues and records *)

MacMachine == <<"M", "a", "c", "B", "o", "o", "k", " ", "A", "i", "r", " ", "1", "3", "-", "i", "n", "c", "h">>
PadMachine == <<"i", "P", "a", "d", " ", "P", "r", "o", " ", "1", "1", "-", "i", "n", "c", "h">>

\* One catalogue row without its Variant ID
CatalogueRow(machine, cpu, cpu_cores, storage, gpu, colour, grade) ==
    [machine |-> machine, year |-> 2024, cpu |-> cpu, cpu_cores |-> cpu_cores,
     storage |-> storage, ram |-> <<"1", "6">>, gpu |-> gpu, colour |-> colour,
     grade |-> grade]

\* The catalogue rows: for each machine every mix of present and NULL CPU
\* cores, GPU and colour; a 1 TB row per machine; rows without a CPU; an
\* iPad row of another grade
CatalogueRows ==
    {CatalogueRow(m, <<"M", "4">>, c, <<"2", "5", "6">>, g, col, <<"E", "x", "c", "e", "l", "l", "e", "n", "t">>) :
        m \in {MacMachine, PadMachine}, c \in {<<>>, <<"1", "0">>},
        g \in {<<>>, <<"1", "0", "-", "C", "o", "r", "e">>}, col \in {<<>>, <<"s", "i", "l", "v", "e", "r">>}}
    \cup {CatalogueRow(m, <<"M", "4">>, <<"1", "0">>, <<"1", "T", "B">>, <<"1", "0", "-", "C", "o", "r", "e">>, <<>>, <<"E", "x", "c", "e", "l", "l", "e", "n", "t">>) :
            m \in {MacMachine, PadMachine}}
    \cup {CatalogueRow(m, <<>>, <<"1", "0">>, <<"2", "5", "6">>, <<"1", "0", "-", "C", "o", "r", "e">>, <<"s", "i", "l", "v", "e", "r">>, <<"E", "x", "c", "e", "l", "l", "e", "n", "t">>) :
            m \in {MacMachine, PadMachine}}
    \cup {CatalogueRow(PadMachine, <<"M", "4">>, <<"1", "0">>, <<"2", "5", "6">>, <<"1", "0", "-", "C", "o", "r", "e">>, <<"s", "i", "l", "v", "e", "r">>, <<"G", "o", "o", "d">>)}

\* The number of rows of the catalogue
MaxRows == 2

\* The catalogues: the Variant ID of a row is its position
Catalogues ==
    {[i \in 1..Len(rs) |->
        [variant_id |-> i, machine |-> rs[i].machine, year |-> rs[i].year,
         cpu |-> rs[i].cpu, cpu_cores |-> rs[i].cpu_cores, storage |-> rs[i].storage,
         ram |-> rs[i].ram, gpu |-> rs[i].gpu, colour |-> rs[i].colour,
         grade |-> rs[i].grade]] : rs \in SeqsUpTo(CatalogueRows, MaxRows)}

\* The records looked up: standardized values of a Mac or an iPad
LookupRecords ==
    {[machine |-> m, year |-> <<"2", "0", "2", "4">>, cpu |-> <<"M", "4">>, cpu_cores |-> <<"1", "0">>,
      hd |-> hd, ram |-> <<"1", "6">>, gpu |-> g, colour |-> <<"S", "i", "l", "v", "e", "r">>,
      grade |-> <<"E", "x", "c", "e", "l", "l", "e", "n", "t">>] :
        m \in {MacMachine, PadMachine}, hd \in {<<"2", "5", "6">>, <<"1", "T", "B">>},
        g \in {<<>>, <<"1", "0", "-", "C", "o", "r", "e">>}}

InitVariant ==
    /\ pc = "start"
    /\ variant_rows \in Catalogues
    /\ variant_lookup = LoadVariantLookup(variant_rows, <<>>)
    /\ variant_lookup_simple = LoadVariantLookupSimple(variant_rows, <<>>)
    /\ lookup_args \in LookupRecords
    /\ variant_id = <<>>
    /\ IdlePrice
    /\ IdleStd
    /\ IdleDetect
    /\ IdleColour
    /\ IdleBatch
    /\ IdleRun
    /\ IdleExtract
    /\ IdleSnapshot

\* One call of find_variant_id_and_model
FindVariantIdAndModel ==
    /\ pc = "start"
    /\ variant_id' = FindVariantId(variant_lookup_simple, variant_lookup, lookup_args)
    /\ pc' = "done"
    /\ UNCHANGED <<variant_rows, variant_lookup, variant_lookup_simple, lookup_args,
                   price_vars, std_vars, detect_vars, colour_vars, batch_vars, run_vars, extract_vars, snapshot_vars>>

NextVariant == FindVariantIdAndModel

SpecVariant == InitVariant /\ [][NextVariant]_vars

-----------------------------------------------------------------------------
(* Claims about the variant lookup, checked under SpecVariant *)

\* The nine fields of the record looked up, with some of them blanked
NineFields(a, cpu_cores, gpu, colour) ==
    Lower(a.machine \o <<"|">> \o a.year \o <<"|">> \o a.cpu \o <<"|">> \o cpu_cores
          \o <<"|">> \o a.hd \o <<"|">> \o a.ram \o <<"|">> \o gpu \o <<"|">> \o colour
          \o <<"|">> \o a.grade)

ExactKey == NineFields(lookup_args, lookup_args.cpu_cores, lookup_args.gpu, lookup_args.colour)
NoGpuKey == NineFields(lookup_args, lookup_args.cpu_cores, <<>>, lookup_args.colour)
NoColourKey == NineFields(lookup_args, lookup_args.cpu_cores, lookup_args.gpu, <<>>)
MinimalKey == NineFields(lookup_args, lookup_args.cpu_cores, <<>>, <<>>)
NoCoresKey == NineFields(lookup_args, <<>>, lookup_args.gpu, lookup_args.colour)

\* The Variant ID the nine-field table holds for a key
TableId(key) ==
    variant_lookup[CHOOSE i \in 1..Len(variant_lookup) : variant_lookup[i].key = key].value

InTable(key) == \E i \in 1..Len(variant_lookup) : variant_lookup[i].key = key

\* C11: a record of any device family whose nine-field key misses the table
\* exactly (and with GPU omitted) but matches a table row once Colour is
\* omitted gets that row's Variant ID, not the empty string.
C11_ColourWidening ==
    (pc = "done" /\ ~InTable(ExactKey) /\ ~InTable(NoGpuKey) /\ InTable(NoColourKey))
        => variant_id = TableId(NoColourKey)

\* The table is the nine-field one: the four-field table is empty or the
\* machine is neither an iPhone nor an iPad
FullTableConsulted ==
    \/ variant_lookup_simple = <<>>
    \/ /\ ~Contains(Lower(lookup_args.machine), <<"i", "p", "h", "o", "n", "e">>)
       /\ ~Contains(Lower(lookup_args.machine), <<"i", "p", "a", "d">>)

\* C18: when the nine-field table is consulted, the keys are tried in the
\* order exact, GPU blanked, Colour blanked, GPU and Colour blanked, CPU cores
\* blanked; the result is the Variant ID of the first key the table holds,
\* and the empty string when it holds none.
C18_WideningOrder ==
    (pc = "done" /\ FullTableConsulted) =>
        LET order == <<ExactKey, NoGpuKey, NoColourKey, MinimalKey, NoCoresKey>>
            present == {k \in 1..5 : InTable(order[k])}
        IN  IF present = {} THEN variant_id = <<>>
            ELSE variant_id = TableId(order[CHOOSE k \in present : \A m \in present : k <= m])

\* C18 witness: a Mac record that misses exactly; the table holds its key
\* without GPU (row 2) and its key without Colour (row 1); the result is the
\* Variant ID of the key without GPU.
C18_Witness ==
    /\ pc = "done"
    /\ lookup_args.machine = MacMachine
    /\ ~InTable(ExactKey)
    /\ InTable(NoGpuKey) /\ TableId(NoGpuKey) = <<"2">>
    /\ InTable(NoColourKey) /\ TableId(NoColourKey) = <<"1">>
    /\ variant_id = <<"2">>

-----------------------------------------------------------------------------
(* Colour normalization: _standardize_colour *)

\* color_mapping, in its order
ColourMapping ==
    << <<<<"s", "p", "a", "c", "e", " ", "g", "r", "e", "y">>, <<"S", "p", "a", "c", "e", " ", "G", "r", "e", "y">>>>,
       <<<<"s", "p", "a", "c", "e", " ", "g", "r", "a", "y">>, <<"S", "p", "a", "c", "e", " ", "G", "r", "e", "y">>>>,
       <<<<"s", "i", "l", "v", "e", "r">>, <<"S", "i", "l", "v", "e", "r">>>>,
       <<<<"g", "o", "l", "d">>, <<"G", "o", "l", "d">>>>,
       <<<<"r", "o", "s", "e", " ", "g", "o", "l", "d">>, <<"R", "o", "s", "e", " ", "G", "o", "l", "d">>>>,
       <<<<"m", "i", "d", "n", "i", "g", "h", "t">>, <<"M", "i", "d", "n", "i", "g", "h", "t">>>>,
       <<<<"s", "t", "a", "r", "l", "i", "g", "h", "t">>, <<"S", "t", "a", "r", "l", "i", "g", "h", "t">>>>,
       <<<<"b", "l", "u", "e">>, <<"B", "l", "u", "e">>>>,
       <<<<"s", "k", "y", " ", "b", "l", "u", "e">>, <<"S", "k", "y", " ", "B", "l", "u", "e">>>>,
       <<<<"g", "r", "e", "e", "n">>, <<"G", "r", "e", "e", "n">>>>,
       <<<<"p", "i", "n", "k">>, <<"P", "i", "n", "k">>>>,
       <<<<"p", "u", "r", "p", "l", "e">>, <<"P", "u", "r", "p", "l", "e">>>>,
       <<<<"y", "e", "l", "l", "o", "w">>, <<"Y", "e", "l", "l", "o", "w">>>>,
       <<<<"o", "r", "a", "n", "g", "e">>, <<"O", "r", "a", "n", "g", "e">>>>,
       <<<<"r", "e", "d">>, <<"R", "e", "d">>>> >>

\* color_mapping.get(key, default)
ColourMappingGet(key, default) ==
    IF \E i \in 1..Len(ColourMapping) : ColourMapping[i][1] = key
    THEN ColourMapping[CHOOSE i \in 1..Len(ColourMapping) : ColourMapping[i][1] = key][2]
    ELSE default

\* A colour normalization that looks the string up as it is written
StandardizeColourCaseSensitive(color) ==
    IF color = <<>> THEN <<>>
    ELSE ColourMappingGet(Strip(color), Strip(color))

\* _standardize_colour; None and '' are both written <<>>
StandardizeColour(color) ==
    IF color = <<>> THEN <<>>
    ELSE ColourMappingGet(Lower(Strip(color)), Strip(color))

-----------------------------------------------------------------------------
(* Colour normalization applied to bounded colour strings *)

\* The colour names: the keys of the table and names it does not hold
ColourNames ==
    {ColourMapping[i][1] : i \in 1..Len(ColourMapping)}
    \cup {<<"t", "e", "a", "l">>, <<"s", "p", "a", "c", "e", " ", "b", "l", "a", "c", "k">>, <<"u", "l", "t", "r", "a", "m", "a", "r", "i", "n", "e">>, <<"g", "r", "e", "y">>, <<"u", "n", "k", "n", "o", "w", "n">>}

\* str.title() of a lower-case string of words
TitleCase(s) ==
    [i \in 1..Len(s) |->
        IF (i = 1 \/ s[i - 1] = " ") /\ s[i] \in DOMAIN LowerToUpper
        THEN LowerToUpper[s[i]] ELSE s[i]]

\* The arguments: each name in lower case, title case and upper case, bare
\* or with whitespace around it; the empty string; a string of spaces
ColourInputs ==
    {before \o word \o after :
        before \in {<<>>, <<" ">>},
        after \in {<<>>, <<" ">>, <<NBSP, " ">>},
        word \in UNION {{n, TitleCase(n), Upper(n)} : n \in ColourNames}}
    \cup {<<>>, <<" ", " ">>}

InitColour ==
    /\ pc = "start"
    /\ colour_in \in ColourInputs
    /\ colour_out = <<>>
    /\ IdlePrice
    /\ IdleStd
    /\ IdleDetect
    /\ IdleVariant
    /\ IdleBatch
    /\ IdleRun
    /\ IdleExtract
    /\ IdleSnapshot

\* One call of _standardize_colour
StandardizeColourCall ==
    /\ pc = "start"
    /\ colour_out' = StandardizeColour(colour_in)
    /\ pc' = "done"
    /\ UNCHANGED <<colour_in, price_vars, std_vars, detect_vars, variant_vars, batch_vars, run_vars, extract_vars, snapshot_vars>>

NextColour == StandardizeColourCall

SpecColour == InitColour /\ [][NextColour]_vars

(* Claims about colour normalization, checked under SpecColour *)

\* The canonical name the table holds for the string s, compared without
\* regard to case; None when it holds none
CanonicalOf(s) ==
    LET hits == {i \in 1..Len(ColourMapping) : ColourMapping[i][1] = Lower(s)}
    IN  IF hits = {} THEN None ELSE Some(ColourMapping[CHOOSE i \in hits : TRUE][2])

-----------------------------------------------------------------------------
(* The record standardizer: standardize_apple_product and standardize_apple_data *)

\* The values a raw product dict holds: a string, a number (written by its
\* decimal digits) and None
PyStr(s) == [kind |-> "str", val |-> s]
PyInt(digits) == [kind |-> "int", val |-> digits]
PyNone == [kind |-> "None", val |-> <<>>]

\* bool(value): None, '' and 0 are false
Truthy(v) ==
    \/ v.kind = "str" /\ v.val # <<>>
    \/ v.kind = "int" /\ v.val # <<"0">>

\* str(value)
StrOf(v) == IF v.kind = "None" THEN <<"N", "o", "n", "e">> ELSE v.val

\* dict.get(key, default)
DictGet(d, k, default) == IF k \in Keys(d) THEN Get(d, k) ELSE default

\* re.search(r'(\d+)', text): group 1 of the leftmost match, None without one
FirstNumberFrom(text, i) ==
    LET digits == {k \in i..Len(text) : IsDigit(text[k])}
    IN  IF digits = {} THEN None
        ELSE Some(SubSeq(text, FirstOf(digits), RunEnd(text, FirstOf(digits), DigitChars) - 1))

FirstNumber(text) == FirstNumberFrom(text, 1)

\* re.search(r'(\d+)(GB|TB)', text): the two groups of the leftmost match,
\* None without one
RECURSIVE NumberWithUnitFrom(_, _)
NumberWithUnitFrom(text, i) ==
    LET digits == {k \in i..Len(text) : IsDigit(text[k])}
    IN  IF digits = {} THEN None
        ELSE LET k == FirstOf(digits)
                 e == RunEnd(text, k, DigitChars)
             IN  IF OccursAt(text, <<"G", "B">>, e) \/ OccursAt(text, <<"T", "B">>, e)
                 THEN Some([number |-> SubSeq(text, k, e - 1), unit |-> SubSeq(text, e, e + 1)])
                 ELSE NumberWithUnitFrom(text, e)

NumberWithUnit(text) == NumberWithUnitFrom(text, 1)

\* The branch of the field loop for 'RAM (GB)' and for 'CPU Cores'
NumberField(value) ==
    LET m == FirstNumber(StrOf(value))
    IN  IF m # None THEN m[1] ELSE StrOf(value)

\* The branch of the field loop for 'HD (GB)'
StorageField(value) ==
    LET storage_match == NumberWithUnit(Upper(StrOf(value)))
    IN  IF storage_match # None
        THEN LET number == DigitsValue(storage_match[1].number)
                 gb_value == IF storage_match[1].unit = TB THEN number * 1000 ELSE number
             IN  StandardizeStorageFormat(NatToStr(gb_value))
        ELSE StandardizeStorageFormat(StrOf(value))

\* The branch of the field loop for 'GPU'
GpuField(value) ==
    LET gpu_match == FirstNumber(StrOf(value))
    IN  IF gpu_match # None THEN gpu_match[1] \o <<"-", "C", "o", "r", "e">> ELSE StrOf(value)

\* The branch of the field loop for 'Colour': _standardize_colour of a value
\* that may be None or a number
ColourField(value) == IF ~Truthy(value) THEN <<>> ELSE StandardizeColour(StrOf(value))

\* _standardize_machine_type of a name that may be None or a number
MachineOf(product_name) ==
    IF ~Truthy(product_name) THEN Unknown ELSE StandardizeMachineType(StrOf(product_name))

\* year_mapping of _extract_year_from_chip
YearMapping ==
    << <<<<"M", "1">>, <<"2", "0", "2", "0">>>>, <<<<"M", "1", " ", "P", "r", "o">>, <<"2", "0", "2", "1">>>>, <<<<"M", "1", " ", "M", "a", "x">>, <<"2", "0", "2", "1">>>>,
       <<<<"M", "1", " ", "U", "l", "t", "r", "a">>, <<"2", "0", "2", "2">>>>, <<<<"M", "2">>, <<"2", "0", "2", "2">>>>, <<<<"M", "2", " ", "P", "r", "o">>, <<"2", "0", "2", "3">>>>,
       <<<<"M", "2", " ", "M", "a", "x">>, <<"2", "0", "2", "3">>>>, <<<<"M", "2", " ", "U", "l", "t", "r", "a">>, <<"2", "0", "2", "3">>>>, <<<<"M", "3">>, <<"2", "0", "2", "3">>>>,
       <<<<"M", "3", " ", "P", "r", "o">>, <<"2", "0", "2", "3">>>>, <<<<"M", "3", " ", "M", "a", "x">>, <<"2", "0", "2", "3">>>>, <<<<"M", "3", " ", "U", "l", "t", "r", "a">>, <<"2", "0", "2", "5">>>>,
       <<<<"M", "4">>, <<"2", "0", "2", "4">>>>, <<<<"M", "4", " ", "P", "r", "o">>, <<"2", "0", "2", "4">>>>, <<<<"M", "4", " ", "M", "a", "x">>, <<"2", "0", "2", "4">>>> >>

\* _extract_year_from_chip of a string chip or None
ExtractYearFromChip(chip) ==
    IF ~Truthy(chip) THEN <<>>
    ELSE IF \E i \in 1..Len(YearMapping) : YearMapping[i][1] = chip.val
    THEN YearMapping[CHOOSE i \in 1..Len(YearMapping) : YearMapping[i][1] = chip.val][2]
    ELSE <<>>

\* colour_patterns of _extract_colour_from_name, in the order of the list
ColourPatterns ==
    << <<<<"n", "a", "t", "u", "r", "a", "l", " ", "t", "i", "t", "a", "n", "i", "u", "m">>, <<"N", "a", "t", "u", "r", "a", "l", " ", "T", "i", "t", "a", "n", "i", "u", "m">>>>, <<<<"b", "l", "u", "e", " ", "t", "i", "t", "a", "n", "i", "u", "m">>, <<"B", "l", "u", "e", " ", "T", "i", "t", "a", "n", "i", "u", "m">>>>,
       <<<<"w", "h", "i", "t", "e", " ", "t", "i", "t", "a", "n", "i", "u", "m">>, <<"W", "h", "i", "t", "e", " ", "T", "i", "t", "a", "n", "i", "u", "m">>>>, <<<<"b", "l", "a", "c", "k", " ", "t", "i", "t", "a", "n", "i", "u", "m">>, <<"B", "l", "a", "c", "k", " ", "T", "i", "t", "a", "n", "i", "u", "m">>>>,
       <<<<"d", "e", "s", "e", "r", "t", " ", "t", "i", "t", "a", "n", "i", "u", "m">>, <<"D", "e", "s", "e", "r", "t", " ", "T", "i", "t", "a", "n", "i", "u", "m">>>>, <<<<"s", "p", "a", "c", "e", " ", "b", "l", "a", "c", "k">>, <<"S", "p", "a", "c", "e", " ", "B", "l", "a", "c", "k">>>>,
       <<<<"d", "e", "e", "p", " ", "p", "u", "r", "p", "l", "e">>, <<"D", "e", "e", "p", " ", "P", "u", "r", "p", "l", "e">>>>, <<<<"s", "i", "e", "r", "r", "a", " ", "b", "l", "u", "e">>, <<"S", "i", "e", "r", "r", "a", " ", "B", "l", "u", "e">>>>,
       <<<<"a", "l", "p", "i", "n", "e", " ", "g", "r", "e", "e", "n">>, <<"A", "l", "p", "i", "n", "e", " ", "G", "r", "e", "e", "n">>>>, <<<<"s", "p", "a", "c", "e", " ", "g", "r", "e", "y">>, <<"S", "p", "a", "c", "e", " ", "G", "r", "e", "y">>>>,
       <<<<"s", "p", "a", "c", "e", " ", "g", "r", "a", "y">>, <<"S", "p", "a", "c", "e", " ", "G", "r", "e", "y">>>>, <<<<"m", "i", "d", "n", "i", "g", "h", "t">>, <<"M", "i", "d", "n", "i", "g", "h", "t">>>>,
       <<<<"s", "t", "a", "r", "l", "i", "g", "h", "t">>, <<"S", "t", "a", "r", "l", "i", "g", "h", "t">>>>, <<<<"p", "r", "o", "d", "u", "c", "t", " ", "r", "e", "d">>, <<"R", "e", "d">>>>,
       <<<<"(", "p", "r", "o", "d", "u", "c", "t", ")", "r", "e", "d">>, <<"R", "e", "d">>>>, <<<<"r", "o", "s", "e", " ", "g", "o", "l", "d">>, <<"R", "o", "s", "e", " ", "G", "o", "l", "d">>>>,
       <<<<"s", "k", "y", " ", "b", "l", "u", "e">>, <<"S", "k", "y", " ", "B", "l", "u", "e">>>>, <<<<"u", "l", "t", "r", "a", "m", "a", "r", "i", "n", "e">>, <<"U", "l", "t", "r", "a", "m", "a", "r", "i", "n", "e">>>>,
       <<<<"s", "i", "l", "v", "e", "r">>, <<"S", "i", "l", "v", "e", "r">>>>, <<<<"g", "o", "l", "d">>, <<"G", "o", "l", "d">>>>, <<<<"b", "l", "u", "e">>, <<"B", "l", "u", "e">>>>,
       <<<<"g", "r", "e", "e", "n">>, <<"G", "r", "e", "e", "n">>>>, <<<<"p", "i", "n", "k">>, <<"P", "i", "n", "k">>>>, <<<<"p", "u", "r", "p", "l", "e">>, <<"P", "u", "r", "p", "l", "e">>>>,
       <<<<"y", "e", "l", "l", "o", "w">>, <<"Y", "e", "l", "l", "o", "w">>>>, <<<<"o", "r", "a", "n", "g", "e">>, <<"O", "r", "a", "n", "g", "e">>>>, <<<<"r", "e", "d">>, <<"R", "e", "d">>>>,
       <<<<"t", "e", "a", "l">>, <<"T", "e", "a", "l">>>>, <<<<"w", "h", "i", "t", "e">>, <<"W", "h", "i", "t", "e">>>>, <<<<"b", "l", "a", "c", "k">>, <<"B", "l", "a", "c", "k">>>> >>

\* The loop of _extract_colour_from_name over the patterns from the i-th on
RECURSIVE ColourInName(_, _)
ColourInName(name_lower, i) ==
    IF i > Len(ColourPatterns) THEN <<>>
    ELSE IF Contains(name_lower, ColourPatterns[i][1]) THEN ColourPatterns[i][2]
    ELSE ColourInName(name_lower, i + 1)

\* _extract_colour_from_name: None when it raises AttributeError, which
\* name.lower() does for a name that is a number other than 0
ExtractColourFromName(product_name) ==
    IF ~Truthy(product_name) THEN Some(<<>>)
    ELSE IF product_name.kind # "str" THEN None
    ELSE Some(ColourInName(Lower(product_name.val), 1))

\* re.search(r'(\d+)\s*(GB|TB)', text, re.IGNORECASE): the two groups of the
\* leftmost match, None without one
RECURSIVE StorageInNameFrom(_, _)
StorageInNameFrom(text, i) ==
    LET digits == {k \in i..Len(text) : IsDigit(text[k])}
    IN  IF digits = {} THEN None
        ELSE LET k == FirstOf(digits)
                 e == RunEnd(text, k, DigitChars)
                 u == RunEnd(text, e, {" ", NBSP})
             IN  IF OccursAt(Upper(text), <<"G", "B">>, u) \/ OccursAt(Upper(text), <<"T", "B">>, u)
                 THEN Some([number |-> SubSeq(text, k, e - 1), unit |-> SubSeq(Upper(text), u, u + 1)])
                 ELSE StorageInNameFrom(text, e)

\* Lines 895-904: the storage read from the name of an iPhone or an iPad
\* whose 'HD (GB)' is still empty
StorageFromName(hd, machine, product_name) ==
    IF hd = <<>> /\ IsPhoneOrPad(machine)
    THEN LET storage_match == StorageInNameFrom(StrOf(product_name), 1)
         IN  IF storage_match = None THEN hd
             ELSE IF storage_match[1].unit = TB
             THEN NatToStr(DigitsValue(storage_match[1].number) * 1000)
             ELSE NatToStr(DigitsValue(storage_match[1].number))
    ELSE hd

\* The least position of a set of positions
\* IPAD_MODEL_NUMBERS: (device_type, screen_size, chip_gen, connectivity) -> model number
IPAD_MODEL_NUMBERS ==
    << [key |-> <<<<"i", "p", "a", "d", " ", "p", "r", "o">>, <<"1", "3">>, <<"m", "5">>, <<"w", "i", "f", "i">>>>, value |-> <<"A", "3", "3", "2", "5">>], [key |-> <<<<"i", "p", "a", "d", " ", "p", "r", "o">>, <<"1", "3">>, <<"m", "5">>, <<"c", "e", "l", "l", "u", "l", "a", "r">>>>, value |-> <<"A", "3", "3", "2", "6">>],
       [key |-> <<<<"i", "p", "a", "d", " ", "p", "r", "o">>, <<"1", "1">>, <<"m", "5">>, <<"w", "i", "f", "i">>>>, value |-> <<"A", "3", "3", "2", "3">>], [key |-> <<<<"i", "p", "a", "d", " ", "p", "r", "o">>, <<"1", "1">>, <<"m", "5">>, <<"c", "e", "l", "l", "u", "l", "a", "r">>>>, value |-> <<"A", "3", "3", "2", "4">>],
       [key |-> <<<<"i", "p", "a", "d", " ", "p", "r", "o">>, <<"1", "3">>, <<"m", "4">>, <<"w", "i", "f", "i">>>>, value |-> <<"A", "2", "9", "2", "5">>], [key |-> <<<<"i", "p", "a", "d", " ", "p", "r", "o">>, <<"1", "3">>, <<"m", "4">>, <<"c", "e", "l", "l", "u", "l", "a", "r">>>>, value |-> <<"A", "2", "9", "2", "6">>],
       [key |-> <<<<"i", "p", "a", "d", " ", "p", "r", "o">>, <<"1", "1">>, <<"m", "4">>, <<"w", "i", "f", "i">>>>, value |-> <<"A", "2", "8", "3", "6">>], [key |-> <<<<"i", "p", "a", "d", " ", "p", "r", "o">>, <<"1", "1">>, <<"m", "4">>, <<"c", "e", "l", "l", "u", "l", "a", "r">>>>, value |-> <<"A", "2", "8", "3", "7">>],
       [key |-> <<<<"i", "p", "a", "d", " ", "p", "r", "o">>, <<"1", "2", ".", "9">>, <<"6", "t", "h">>, <<"w", "i", "f", "i">>>>, value |-> <<"A", "2", "4", "3", "6">>], [key |-> <<<<"i", "p", "a", "d", " ", "p", "r", "o">>, <<"1", "2", ".", "9">>, <<"6", "t", "h">>, <<"c", "e", "l", "l", "u", "l", "a", "r">>>>, value |-> <<"A", "2", "4", "3", "7">>],
       [key |-> <<<<"i", "p", "a", "d", " ", "p", "r", "o">>, <<"1", "2", ".", "9">>, <<"m", "2">>, <<"w", "i", "f", "i">>>>, value |-> <<"A", "2", "4", "3", "6">>], [key |-> <<<<"i", "p", "a", "d", " ", "p", "r", "o">>, <<"1", "2", ".", "9">>, <<"m", "2">>, <<"c", "e", "l", "l", "u", "l", "a", "r">>>>, value |-> <<"A", "2", "4", "3", "7">>],
       [key |-> <<<<"i", "p", "a", "d", " ", "p", "r", "o">>, <<"1", "1">>, <<"4", "t", "h">>, <<"w", "i", "f", "i">>>>, value |-> <<"A", "2", "7", "5", "9">>], [key |-> <<<<"i", "p", "a", "d", " ", "p", "r", "o">>, <<"1", "1">>, <<"4", "t", "h">>, <<"c", "e", "l", "l", "u", "l", "a", "r">>>>, value |-> <<"A", "2", "7", "6", "1">>],
       [key |-> <<<<"i", "p", "a", "d", " ", "p", "r", "o">>, <<"1", "1">>, <<"m", "2">>, <<"w", "i", "f", "i">>>>, value |-> <<"A", "2", "7", "5", "9">>], [key |-> <<<<"i", "p", "a", "d", " ", "p", "r", "o">>, <<"1", "1">>, <<"m", "2">>, <<"c", "e", "l", "l", "u", "l", "a", "r">>>>, value |-> <<"A", "2", "7", "6", "1">>],
       [key |-> <<<<"i", "p", "a", "d", " ", "p", "r", "o">>, <<"1", "2", ".", "9">>, <<"5", "t", "h">>, <<"w", "i", "f", "i">>>>, value |-> <<"A", "2", "3", "7", "8">>], [key |-> <<<<"i", "p", "a", "d", " ", "p", "r", "o">>, <<"1", "2", ".", "9">>, <<"5", "t", "h">>, <<"c", "e", "l", "l", "u", "l", "a", "r">>>>, value |-> <<"A", "2", "4", "6", "1">>],
       [key |-> <<<<"i", "p", "a", "d", " ", "p", "r", "o">>, <<"1", "2", ".", "9">>, <<"m", "1">>, <<"w", "i", "f", "i">>>>, value |-> <<"A", "2", "3", "7", "8">>], [key |-> <<<<"i", "p", "a", "d", " ", "p", "r", "o">>, <<"1", "2", ".", "9">>, <<"m", "1">>, <<"c", "e", "l", "l", "u", "l", "a", "r">>>>, value |-> <<"A", "2", "4", "6", "1">>],
       [key |-> <<<<"i", "p", "a", "d", " ", "p", "r", "o">>, <<"1", "1">>, <<"3", "r", "d">>, <<"w", "i", "f", "i">>>>, value |-> <<"A", "2", "3", "7", "7">>], [key |-> <<<<"i", "p", "a", "d", " ", "p", "r", "o">>, <<"1", "1">>, <<"3", "r", "d">>, <<"c", "e", "l", "l", "u", "l", "a", "r">>>>, value |-> <<"A", "2", "4", "5", "9">>],
       [key |-> <<<<"i", "p", "a", "d", " ", "p", "r", "o">>, <<"1", "1">>, <<"m", "1">>, <<"w", "i", "f", "i">>>>, value |-> <<"A", "2", "3", "7", "7">>], [key |-> <<<<"i", "p", "a", "d", " ", "p", "r", "o">>, <<"1", "1">>, <<"m", "1">>, <<"c", "e", "l", "l", "u", "l", "a", "r">>>>, value |-> <<"A", "2", "4", "5", "9">>],
       [key |-> <<<<"i", "p", "a", "d", " ", "a", "i", "r">>, <<"1", "3">>, <<"m", "3">>, <<"w", "i", "f", "i">>>>, value |-> <<"A", "3", "2", "6", "8">>], [key |-> <<<<"i", "p", "a", "d", " ", "a", "i", "r">>, <<"1", "3">>, <<"m", "3">>, <<"c", "e", "l", "l", "u", "l", "a", "r">>>>, value |-> <<"A", "3", "2", "6", "9">>],
       [key |-> <<<<"i", "p", "a", "d", " ", "a", "i", "r">>, <<"1", "1">>, <<"m", "3">>, <<"w", "i", "f", "i">>>>, value |-> <<"A", "3", "2", "6", "6">>], [key |-> <<<<"i", "p", "a", "d", " ", "a", "i", "r">>, <<"1", "1">>, <<"m", "3">>, <<"c", "e", "l", "l", "u", "l", "a", "r">>>>, value |-> <<"A", "3", "2", "6", "7">>],
       [key |-> <<<<"i", "p", "a", "d", " ", "a", "i", "r">>, <<"1", "3">>, <<"m", "2">>, <<"w", "i", "f", "i">>>>, value |-> <<"A", "2", "8", "9", "8">>], [key |-> <<<<"i", "p", "a", "d", " ", "a", "i", "r">>, <<"1", "3">>, <<"m", "2">>, <<"c", "e", "l", "l", "u", "l", "a", "r">>>>, value |-> <<"A", "2", "8", "9", "9">>],
       [key |-> <<<<"i", "p", "a", "d", " ", "a", "i", "r">>, <<"1", "1">>, <<"m", "2">>, <<"w", "i", "f", "i">>>>, value |-> <<"A", "2", "9", "0", "2">>], [key |-> <<<<"i", "p", "a", "d", " ", "a", "i", "r">>, <<"1", "1">>, <<"m", "2">>, <<"c", "e", "l", "l", "u", "l", "a", "r">>>>, value |-> <<"A", "2", "9", "0", "3">>],
       [key |-> <<<<"i", "p", "a", "d", " ", "a", "i", "r">>, <<"1", "0", ".", "9">>, <<"5", "t", "h">>, <<"w", "i", "f", "i">>>>, value |-> <<"A", "2", "5", "8", "8">>], [key |-> <<<<"i", "p", "a", "d", " ", "a", "i", "r">>, <<"1", "0", ".", "9">>, <<"5", "t", "h">>, <<"c", "e", "l", "l", "u", "l", "a", "r">>>>, value |-> <<"A", "2", "5", "8", "9">>],
       [key |-> <<<<"i", "p", "a", "d", " ", "a", "i", "r">>, <<"1", "0", ".", "9">>, <<"m", "1">>, <<"w", "i", "f", "i">>>>, value |-> <<"A", "2", "5", "8", "8">>], [key |-> <<<<"i", "p", "a", "d", " ", "a", "i", "r">>, <<"1", "0", ".", "9">>, <<"m", "1">>, <<"c", "e", "l", "l", "u", "l", "a", "r">>>>, value |-> <<"A", "2", "5", "8", "9">>],
       [key |-> <<<<"i", "p", "a", "d", " ", "a", "i", "r">>, <<>>, <<"5", "t", "h">>, <<"w", "i", "f", "i">>>>, value |-> <<"A", "2", "5", "8", "8">>], [key |-> <<<<"i", "p", "a", "d", " ", "a", "i", "r">>, <<>>, <<"5", "t", "h">>, <<"c", "e", "l", "l", "u", "l", "a", "r">>>>, value |-> <<"A", "2", "5", "8", "9">>],
       [key |-> <<<<"i", "p", "a", "d", " ", "a", "i", "r">>, <<>>, <<"m", "1">>, <<"w", "i", "f", "i">>>>, value |-> <<"A", "2", "5", "8", "8">>], [key |-> <<<<"i", "p", "a", "d", " ", "a", "i", "r">>, <<>>, <<"m", "1">>, <<"c", "e", "l", "l", "u", "l", "a", "r">>>>, value |-> <<"A", "2", "5", "8", "9">>],
       [key |-> <<<<"i", "p", "a", "d", " ", "m", "i", "n", "i">>, <<>>, <<"6", "t", "h">>, <<"w", "i", "f", "i">>>>, value |-> <<"A", "2", "5", "6", "7">>], [key |-> <<<<"i", "p", "a", "d", " ", "m", "i", "n", "i">>, <<>>, <<"6", "t", "h">>, <<"c", "e", "l", "l", "u", "l", "a", "r">>>>, value |-> <<"A", "2", "5", "6", "8">>],
       [key |-> <<<<"i", "p", "a", "d", " ", "m", "i", "n", "i">>, <<>>, <<"6">>, <<"w", "i", "f", "i">>>>, value |-> <<"A", "2", "5", "6", "7">>], [key |-> <<<<"i", "p", "a", "d", " ", "m", "i", "n", "i">>, <<>>, <<"6">>, <<"c", "e", "l", "l", "u", "l", "a", "r">>>>, value |-> <<"A", "2", "5", "6", "8">>],
       [key |-> <<<<"i", "p", "a", "d", " ", "m", "i", "n", "i">>, <<>>, <<"a", "1", "7">>, <<"w", "i", "f", "i">>>>, value |-> <<"A", "2", "9", "9", "3">>], [key |-> <<<<"i", "p", "a", "d", " ", "m", "i", "n", "i">>, <<>>, <<"a", "1", "7">>, <<"c", "e", "l", "l", "u", "l", "a", "r">>>>, value |-> <<"A", "2", "9", "9", "5">>] >>

\* IPHONE_MODEL_NUMBERS: (model number of the name, variant) -> model number
IPHONE_MODEL_NUMBERS ==
    << [key |-> <<<<"1", "7">>, <<"p", "r", "o", " ", "m", "a", "x">>>>, value |-> <<"A", "3", "5", "2", "6">>], [key |-> <<<<"1", "7">>, <<"p", "r", "o">>>>, value |-> <<"A", "3", "5", "2", "3">>], [key |-> <<<<"1", "7">>, <<>>>>, value |-> <<"A", "3", "5", "2", "0">>],
       [key |-> <<<<"a", "i", "r">>, <<>>>>, value |-> <<"A", "3", "5", "1", "7">>], [key |-> <<<<"1", "6", "e">>, <<>>>>, value |-> <<"A", "3", "4", "0", "9">>], [key |-> <<<<"1", "6">>, <<"p", "r", "o", " ", "m", "a", "x">>>>, value |-> <<"A", "3", "2", "9", "6">>],
       [key |-> <<<<"1", "6">>, <<"p", "r", "o">>>>, value |-> <<"A", "3", "2", "9", "3">>], [key |-> <<<<"1", "6">>, <<"p", "l", "u", "s">>>>, value |-> <<"A", "3", "2", "9", "0">>], [key |-> <<<<"1", "6">>, <<>>>>, value |-> <<"A", "3", "2", "8", "7">>],
       [key |-> <<<<"1", "5">>, <<"p", "r", "o", " ", "m", "a", "x">>>>, value |-> <<"A", "3", "1", "0", "6">>], [key |-> <<<<"1", "5">>, <<"p", "r", "o">>>>, value |-> <<"A", "3", "1", "0", "2">>], [key |-> <<<<"1", "5">>, <<"p", "l", "u", "s">>>>, value |-> <<"A", "3", "0", "9", "4">>],
       [key |-> <<<<"1", "5">>, <<>>>>, value |-> <<"A", "3", "0", "9", "0">>], [key |-> <<<<"1", "4">>, <<"p", "r", "o", " ", "m", "a", "x">>>>, value |-> <<"A", "2", "8", "9", "4">>], [key |-> <<<<"1", "4">>, <<"p", "r", "o">>>>, value |-> <<"A", "2", "8", "9", "0">>],
       [key |-> <<<<"1", "4">>, <<"p", "l", "u", "s">>>>, value |-> <<"A", "2", "8", "8", "6">>], [key |-> <<<<"1", "4">>, <<>>>>, value |-> <<"A", "2", "8", "8", "2">>], [key |-> <<<<"s", "e">>, <<"3", "r", "d">>>>, value |-> <<"A", "2", "7", "8", "3">>],
       [key |-> <<<<"s", "e">>, <<>>>>, value |-> <<"A", "2", "7", "8", "3">>], [key |-> <<<<"1", "3">>, <<"p", "r", "o", " ", "m", "a", "x">>>>, value |-> <<"A", "2", "6", "4", "3">>], [key |-> <<<<"1", "3">>, <<"p", "r", "o">>>>, value |-> <<"A", "2", "6", "3", "8">>],
       [key |-> <<<<"1", "3">>, <<"m", "i", "n", "i">>>>, value |-> <<"A", "2", "6", "2", "8">>], [key |-> <<<<"1", "3">>, <<>>>>, value |-> <<"A", "2", "6", "3", "3">>], [key |-> <<<<"1", "2">>, <<"p", "r", "o", " ", "m", "a", "x">>>>, value |-> <<"A", "2", "4", "1", "1">>],
       [key |-> <<<<"1", "2">>, <<"p", "r", "o">>>>, value |-> <<"A", "2", "4", "0", "7">>], [key |-> <<<<"1", "2">>, <<"m", "i", "n", "i">>>>, value |-> <<"A", "2", "3", "9", "9">>], [key |-> <<<<"1", "2">>, <<>>>>, value |-> <<"A", "2", "4", "0", "3">>],
       [key |-> <<<<"s", "e">>, <<"2", "n", "d">>>>, value |-> <<"A", "2", "2", "9", "6">>], [key |-> <<<<"1", "1">>, <<"p", "r", "o", " ", "m", "a", "x">>>>, value |-> <<"A", "2", "2", "1", "8">>], [key |-> <<<<"1", "1">>, <<"p", "r", "o">>>>, value |-> <<"A", "2", "2", "1", "5">>],
       [key |-> <<<<"1", "1">>, <<>>>>, value |-> <<"A", "2", "2", "2", "1">>] >>

\* iphone_years of _extract_year_from_model
iphone_years ==
    << [key |-> <<"1", "7">>, value |-> <<"2", "0", "2", "5">>], [key |-> <<"1", "6">>, value |-> <<"2", "0", "2", "4">>], [key |-> <<"1", "5">>, value |-> <<"2", "0", "2", "3">>], [key |-> <<"1", "4">>, value |-> <<"2", "0", "2", "2">>],
       [key |-> <<"1", "3">>, value |-> <<"2", "0", "2", "1">>], [key |-> <<"1", "2">>, value |-> <<"2", "0", "2", "0">>], [key |-> <<"1", "1">>, value |-> <<"2", "0", "1", "9">>] >>

\* ipad_model_years of _extract_year_from_model
ipad_model_years ==
    << [key |-> <<"A", "3", "3", "2", "5">>, value |-> <<"2", "0", "2", "5">>], [key |-> <<"A", "3", "3", "2", "6">>, value |-> <<"2", "0", "2", "5">>], [key |-> <<"A", "3", "3", "2", "3">>, value |-> <<"2", "0", "2", "5">>], [key |-> <<"A", "3", "3", "2", "4">>, value |-> <<"2", "0", "2", "5">>],
       [key |-> <<"A", "2", "9", "2", "5">>, value |-> <<"2", "0", "2", "4">>], [key |-> <<"A", "2", "9", "2", "6">>, value |-> <<"2", "0", "2", "4">>], [key |-> <<"A", "2", "8", "3", "6">>, value |-> <<"2", "0", "2", "4">>], [key |-> <<"A", "2", "8", "3", "7">>, value |-> <<"2", "0", "2", "4">>],
       [key |-> <<"A", "2", "4", "3", "6">>, value |-> <<"2", "0", "2", "2">>], [key |-> <<"A", "2", "4", "3", "7">>, value |-> <<"2", "0", "2", "2">>], [key |-> <<"A", "2", "7", "5", "9">>, value |-> <<"2", "0", "2", "2">>], [key |-> <<"A", "2", "7", "6", "1">>, value |-> <<"2", "0", "2", "2">>],
       [key |-> <<"A", "2", "3", "7", "8">>, value |-> <<"2", "0", "2", "1">>], [key |-> <<"A", "2", "4", "6", "1">>, value |-> <<"2", "0", "2", "1">>], [key |-> <<"A", "2", "3", "7", "7">>, value |-> <<"2", "0", "2", "1">>], [key |-> <<"A", "2", "4", "5", "9">>, value |-> <<"2", "0", "2", "1">>],
       [key |-> <<"A", "3", "2", "6", "8">>, value |-> <<"2", "0", "2", "5">>], [key |-> <<"A", "3", "2", "6", "9">>, value |-> <<"2", "0", "2", "5">>], [key |-> <<"A", "3", "2", "6", "6">>, value |-> <<"2", "0", "2", "5">>], [key |-> <<"A", "3", "2", "6", "7">>, value |-> <<"2", "0", "2", "5">>],
       [key |-> <<"A", "2", "8", "9", "8">>, value |-> <<"2", "0", "2", "4">>], [key |-> <<"A", "2", "8", "9", "9">>, value |-> <<"2", "0", "2", "4">>], [key |-> <<"A", "2", "9", "0", "2">>, value |-> <<"2", "0", "2", "4">>], [key |-> <<"A", "2", "9", "0", "3">>, value |-> <<"2", "0", "2", "4">>],
       [key |-> <<"A", "2", "5", "8", "8">>, value |-> <<"2", "0", "2", "2">>], [key |-> <<"A", "2", "5", "8", "9">>, value |-> <<"2", "0", "2", "2">>], [key |-> <<"A", "2", "5", "6", "7">>, value |-> <<"2", "0", "2", "1">>], [key |-> <<"A", "2", "5", "6", "8">>, value |-> <<"2", "0", "2", "1">>],
       [key |-> <<"A", "2", "9", "9", "3">>, value |-> <<"2", "0", "2", "4">>], [key |-> <<"A", "2", "9", "9", "5">>, value |-> <<"2", "0", "2", "4">>] >>

\* group 1 of re.search(r'(\d+(?:\.\d+)?)-?inch', s): the fraction is tried
\* first, then the digits alone; None without a match
RECURSIVE ModelSizeSearch(_, _)
ModelSizeSearch(s, i) ==
    LET digits == {k \in i..Len(s) : IsDigit(s[k])}
    IN  IF digits = {} THEN None
        ELSE LET k == FirstOf(digits)
                 ends == NumberEnds(s, k)
                 TailAt(e) == OccursAt(s, DashInch, e) \/ OccursAt(s, Inch, e)
             IN  IF TailAt(ends[2]) THEN Some(SubSeq(s, k, ends[2] - 1))
                 ELSE IF TailAt(ends[1]) THEN Some(SubSeq(s, k, ends[1] - 1))
                 ELSE ModelSizeSearch(s, k + 1)

\* group 1 of re.search of  prefix (\d+) suffix  in s, where suffix is one
\* of the given alternatives (<<>> for none required); None without a match
DigitsBetween(s, prefix, suffixes) ==
    LET End(i) == RunEnd(s, i + Len(prefix), DigitChars)
        hits == {i \in 1..Len(s) :
                    /\ OccursAt(s, prefix, i)
                    /\ End(i) > i + Len(prefix)
                    /\ \E suffix \in suffixes : suffix = <<>> \/ OccursAt(s, suffix, End(i))}
    IN  IF hits = {} THEN None
        ELSE Some(SubSeq(s, FirstOf(hits) + Len(prefix), End(FirstOf(hits)) - 1))

\* group 1 of re.search(r'(\d+)(?:st|nd|rd|th)\s*gen', s)
GenSearch(s) ==
    LET End(i) == RunEnd(s, i, DigitChars)
        hits == {i \in 1..Len(s) :
                    /\ IsDigit(s[i])
                    /\ \E ordinal \in {<<"s", "t">>, <<"n", "d">>, <<"r", "d">>, <<"t", "h">>} :
                         /\ OccursAt(s, ordinal, End(i))
                         /\ OccursAt(s, <<"g", "e", "n">>, RunEnd(s, End(i) + 2, {" "}))}
    IN  IF hits = {} THEN None
        ELSE Some(SubSeq(s, FirstOf(hits), End(FirstOf(hits)) - 1))

\* group 1 of re.search(r'ipad\s+mini\s+(\d+)', s)
MiniSearch(s) ==
    LET MiniAt(i) == RunEnd(s, i + 4, {" "})
        NumAt(i) == RunEnd(s, MiniAt(i) + 4, {" "})
        hits == {i \in 1..Len(s) :
                    /\ OccursAt(s, kw_ipad, i)
                    /\ MiniAt(i) > i + 4
                    /\ OccursAt(s, <<"m", "i", "n", "i">>, MiniAt(i))
                    /\ NumAt(i) > MiniAt(i) + 4
                    /\ RunEnd(s, NumAt(i), DigitChars) > NumAt(i)}
    IN  IF hits = {} THEN None
        ELSE Some(SubSeq(s, NumAt(FirstOf(hits)), RunEnd(s, NumAt(FirstOf(hits)), DigitChars) - 1))

\* The chip or generation token of an iPad name (lines 545-563)
ChipGen(name_normalized) ==
    LET m_chip_match == DigitsBetween(name_normalized, <<"(", "m">>, {<<")">>})
        gen_match == GenSearch(name_normalized)
        mini_match == MiniSearch(name_normalized)
        a_chip_match == DigitsBetween(name_normalized, <<"(", "a">>, {<<>>})
    IN  IF m_chip_match # None THEN <<"m">> \o m_chip_match[1]
        ELSE IF gen_match # None THEN gen_match[1] \o <<"t", "h">>
        ELSE IF a_chip_match # None THEN <<"a">> \o a_chip_match[1]
        ELSE IF mini_match # None THEN mini_match[1]
        ELSE <<>>

\* The iPad branch of _extract_model_info (lines 529-583)
IPadModel(name_normalized) ==
    LET device_type == IF Contains(name_normalized, kw_ipad_pro) THEN kw_ipad_pro
                       ELSE IF Contains(name_normalized, kw_ipad_air) THEN kw_ipad_air
                       ELSE IF Contains(name_normalized, kw_ipad_mini) THEN kw_ipad_mini
                       ELSE kw_ipad
        size_match == ModelSizeSearch(name_normalized, 1)
        screen_size == IF size_match # None THEN size_match[1] ELSE <<>>
        chip_gen == ChipGen(name_normalized)
        connectivity == IF \/ Contains(name_normalized, <<"c", "e", "l", "l", "u", "l", "a", "r">>)
                           \/ Contains(name_normalized, <<"w", "i", "-", "f", "i", " ", "+", " ", "c", "e", "l", "l", "u", "l", "a", "r">>)
                           \/ Contains(name_normalized, <<"w", "i", "-", "f", "i", "+", "c", "e", "l", "l", "u", "l", "a", "r">>)
                        THEN <<"c", "e", "l", "l", "u", "l", "a", "r">> ELSE <<"w", "i", "f", "i">>
        lookup_key == <<device_type, screen_size, chip_gen, connectivity>>
        lookup_key_no_size == <<device_type, <<>>, chip_gen, connectivity>>
    IN  IF lookup_key \in Keys(IPAD_MODEL_NUMBERS) THEN Get(IPAD_MODEL_NUMBERS, lookup_key)
        ELSE DictGet(IPAD_MODEL_NUMBERS, lookup_key_no_size, <<>>)

\* The iPhone branch of _extract_model_info (lines 586-626)
IPhoneModel(name_normalized) ==
    IF Contains(name_normalized, <<"i", "p", "h", "o", "n", "e", " ", "s", "e">>)
    THEN LET gen_match == GenSearch(name_normalized)
             gen == IF gen_match = None THEN <<>>
                    ELSE IF gen_match[1] = <<"3">> THEN <<"3", "r", "d">>
                    ELSE gen_match[1] \o <<"n", "d">>
         IN  DictGet(IPHONE_MODEL_NUMBERS, <<<<"s", "e">>, gen>>, <<>>)
    ELSE IF Contains(name_normalized, <<"i", "p", "h", "o", "n", "e", " ", "a", "i", "r">>)
    THEN DictGet(IPHONE_MODEL_NUMBERS, <<<<"a", "i", "r">>, <<>>>>, <<>>)
    ELSE IF Contains(name_normalized, <<"i", "p", "h", "o", "n", "e", " ", "1", "6", "e">>)
    THEN DictGet(IPHONE_MODEL_NUMBERS, <<<<"1", "6", "e">>, <<>>>>, <<>>)
    ELSE LET iphone_match == IPhoneSearch(name_normalized, 1)
         IN  IF iphone_match = None THEN <<>>
             ELSE DictGet(IPHONE_MODEL_NUMBERS,
                          <<iphone_match[1][1],
                            Replace(Strip(iphone_match[1][2]), <<" ", " ">>, <<" ">>)>>, <<>>)

\* _extract_model_info: the Apple model number of an iPad or an iPhone,
\* '' for any other machine and for a name that is empty or None
ExtractModelInfo(product_name, machine) ==
    IF ~Truthy(product_name) THEN <<>>
    ELSE LET name_normalized == NameNormalized(StrOf(product_name))
         IN  IF Contains(Lower(machine), kw_ipad) THEN IPadModel(name_normalized)
             ELSE IF Contains(Lower(machine), kw_iphone) THEN IPhoneModel(name_normalized)
             ELSE <<>>

\* _extract_year_from_model
ExtractYearFromModel(machine, model_number) ==
    LET machine_lower == Lower(machine)
        model_match == IPhoneSearch(machine_lower, 1)
        IPadYear == IF Contains(machine_lower, kw_ipad)
                    THEN DictGet(ipad_model_years, model_number, <<>>) ELSE <<>>
    IN  IF machine = <<>> THEN <<>>
        ELSE IF Contains(machine_lower, kw_iphone)
        THEN IF model_match # None THEN DictGet(iphone_years, model_match[1][1], <<>>)
             ELSE IF Contains(machine_lower, <<"s", "e">>) THEN <<"2", "0", "2", "2">>
             ELSE IF Contains(machine_lower, <<"a", "i", "r">>) THEN <<"2", "0", "2", "5">>
             ELSE IPadYear
        ELSE IPadYear

\* The number of clock ticks in a day
TicksPerDay == 2

\* Two decimal digits of a number below 100
TwoDigits(n) == <<Digits[(n \div 10) + 1], Digits[(n % 10) + 1]>>

\* strftime("%Y-%m-%d") of the clock
FormatDay(t) == <<"2", "0", "2", "5", "-", "0", "1", "-">> \o TwoDigits(1 + (t \div TicksPerDay))

\* strftime("%Y-%m-%d %H:%M:%S") of the clock
FormatNow(t) == FormatDay(t) \o <<" ", "0", "0", ":", "0", "0", ":">> \o TwoDigits(t % TicksPerDay)

\* The shape "dddd-dd-dd dd:dd:dd" of a zero-padded timestamp
TimestampShape == <<"d", "d", "d", "d", "-", "d", "d", "-", "d", "d", " ", "d", "d", ":", "d", "d", ":", "d", "d">>

\* datetime.strptime(timestamp, "%Y-%m-%d %H:%M:%S").strftime("%Y-%m-%d"):
\* the day of a zero-padded timestamp, None when strptime raises (a value
\* that is not a string, a string of another shape)
TimestampDay(timestamp) ==
    IF /\ timestamp.kind = "str"
       /\ Len(timestamp.val) = Len(TimestampShape)
       /\ \A i \in 1..Len(TimestampShape) :
            IF TimestampShape[i] = "d" THEN IsDigit(timestamp.val[i])
            ELSE timestamp.val[i] = TimestampShape[i]
    THEN Some(SubSeq(timestamp.val, 1, 10))
    ELSE None

\* standardize_apple_product at clock t with the two lookup tables: the
\* standardized dict, None when the call raises
StandardizeAppleProduct(apple_product, t, simple, full) ==
    LET empty == PyStr(<<>>)
        product_name == DictGet(apple_product, "name", empty)
        chip == DictGet(apple_product, "chip", empty)
        colour_field == ColourField(DictGet(apple_product, "color", empty))
        machine == MachineOf(product_name)
        model_number == ExtractModelInfo(product_name, machine)
        chip_year == ExtractYearFromChip(chip)
        year == IF chip_year = <<>> THEN ExtractYearFromModel(machine, model_number)
                ELSE chip_year
        name_colour == IF colour_field = <<>> THEN ExtractColourFromName(product_name)
                       ELSE Some(colour_field)
        cpu_cores == NumberField(DictGet(apple_product, "cpu_cores", empty))
        ram == NumberField(DictGet(apple_product, "memory", empty))
        gpu == GpuField(DictGet(apple_product, "gpu_cores", empty))
        hd == StorageFromName(StorageField(DictGet(apple_product, "storage", empty)),
                              machine, product_name)
        timestamp == DictGet(apple_product, "scraped_at", PyStr(FormatNow(t)))
        day == TimestampDay(timestamp)
        grade == <<"E", "x", "c", "e", "l", "l", "e", "n", "t">>
    IN  IF name_colour = None THEN None
        ELSE Some([Title |-> product_name,
                   Price |-> DictGet(apple_product, "current_price", empty),
                   URL |-> DictGet(apple_product, "url", empty),
                   CPU |-> chip,
                   CPU_Cores |-> PyStr(cpu_cores),
                   RAM_GB |-> PyStr(ram),
                   HD_GB |-> PyStr(hd),
                   GPU |-> PyStr(gpu),
                   Colour |-> PyStr(name_colour[1]),
                   Condition |-> PyStr(<<"R", "e", "f", "u", "r", "b", "i", "s", "h", "e", "d">>),
                   Grade |-> PyStr(grade),
                   Seller |-> PyStr(<<"A", "p", "p", "l", "e">>),
                   Warning |-> empty,
                   Machine |-> PyStr(machine),
                   Model |-> PyStr(model_number),
                   Year |-> PyStr(year),
                   Change |-> PyInt(<<"0">>),
                   Timestamp |-> timestamp,
                   Timestamp_Day |-> PyStr(IF day # None THEN day[1] ELSE FormatDay(t)),
                   Variant_ID |-> PyStr(FindVariantId(simple, full,
                       [machine |-> machine, year |-> year, cpu |-> StrOf(chip),
                        cpu_cores |-> cpu_cores, hd |-> hd, ram |-> ram, gpu |-> gpu,
                        colour |-> name_colour[1], grade |-> grade]))])

\* A batch loop that stops at the first record whose standardization
\* raises and lets the exception out
RECURSIVE StandardizeAppleDataNoCatch(_, _, _, _, _)
StandardizeAppleDataNoCatch(products, t, simple, full, standardized_products) ==
    IF products = <<>> THEN [raised |-> FALSE, products |-> standardized_products]
    ELSE LET standardized == StandardizeAppleProduct(Head(products), t, simple, full)
         IN  IF standardized = None THEN [raised |-> TRUE, products |-> <<>>]
             ELSE StandardizeAppleDataNoCatch(Tail(products), t, simple, full,
                      Append(standardized_products, standardized[1]))

\* standardize_apple_data: the loop over the raw dicts; the handler of a
\* record that raised reads product.get('name') and goes on
RECURSIVE StandardizeAppleData(_, _, _, _, _)
StandardizeAppleData(products, t, simple, full, standardized_products) ==
    IF products = <<>> THEN [raised |-> FALSE, products |-> standardized_products]
    ELSE LET standardized == StandardizeAppleProduct(Head(products), t, simple, full)
         IN  StandardizeAppleData(Tail(products), t, simple, full,
                 IF standardized = None THEN standardized_products
                 ELSE Append(standardized_products, standardized[1]))

-----------------------------------------------------------------------------
(* The standardizer applied to bounded batches at a moving clock *)

\* The spec fields of a listing whose product page gave every field
FullSpecs ==
    << [key |-> "chip", value |-> PyStr(<<"M", "4">>)],
       [key |-> "cpu_cores", value |-> PyStr(<<"1", "0", "-", "C", "o", "r", "e", " ", "C", "P", "U">>)],
       [key |-> "memory", value |-> PyStr(<<"1", "6", "G", "B">>)],
       [key |-> "storage", value |-> PyStr(<<"2", "5", "6", "G", "B">>)],
       [key |-> "gpu_cores", value |-> PyStr(<<"1", "0", "-", "C", "o", "r", "e", " ", "G", "P", "U">>)],
       [key |-> "color", value |-> PyStr(<<"s", "i", "l", "v", "e", "r">>)] >>

\* The spec fields as extract_detailed_specs leaves them when no pattern
\* matched: every key present with the value None
NoneSpecs ==
    [i \in 1..Len(FullSpecs) |-> [key |-> FullSpecs[i].key, value |-> PyNone]]

\* The names of the records: a Mac title and a name that is a number
RecordNames == {PyStr(<<"R", "e", "f", "u", "r", "b", "i", "s", "h", "e", "d", " ", "1", "3", "-", "i", "n", "c", "h", " ", "M", "a", "c", "B", "o", "o", "k", " ", "A", "i", "r", " ", "-", " ", "M", "i", "d", "n", "i", "g", "h", "t">>), PyInt(<<"5">>)}

\* scraped_at in the format of the timestamp, and in ISO format
ScrapedAt == <<[key |-> "scraped_at", value |-> PyStr(<<"2", "0", "2", "5", "-", "0", "1", "-", "0", "1", " ", "1", "0", ":", "0", "0", ":", "0", "0">>)]>>
ScrapedAtISO == <<[key |-> "scraped_at", value |-> PyStr(<<"2", "0", "2", "5", "-", "0", "1", "-", "0", "1", "T", "1", "0", ":", "0", "0", ":", "0", "0">>)]>>

\* The raw product dicts: a listing with its price and URL, then the spec
\* fields (all found, all None, or the keys missing) and scraped_at (in the
\* format, in another format, or missing)
RawRecords ==
    {<<[key |-> "name", value |-> n],
       [key |-> "current_price", value |-> PyInt(<<"1", "0", "9", "9">>)],
       [key |-> "url", value |-> PyStr(<<"/", "s", "h", "o", "p", "/", "p", "r", "o", "d", "u", "c", "t", "/", "a">>)]>> \o rest :
        n \in RecordNames,
        rest \in {FullSpecs \o ScrapedAt, FullSpecs, NoneSpecs \o ScrapedAtISO, NoneSpecs, <<>>}}

\* The number of records of a batch, the number of batch calls, and the
\* last tick of the clock
MaxBatch == 2
MaxRuns == 2
MaxNow == 2

\* The variants table: empty, or the row of the fully specified MacBook Air
StandardizerCatalogues ==
    {<<>>,
     <<[variant_id |-> 1, machine |-> MacMachine, year |-> 2024, cpu |-> <<"M", "4">>,
        cpu_cores |-> <<"1", "0">>, storage |-> <<"2", "5", "6">>, ram |-> <<"1", "6">>, gpu |-> <<"1", "0", "-", "C", "o", "r", "e">>,
        colour |-> <<"s", "i", "l", "v", "e", "r">>, grade |-> <<"E", "x", "c", "e", "l", "l", "e", "n", "t">>]>>}

InitStandardize ==
    /\ pc = "start"
    /\ apple_products \in SeqsUpTo(RawRecords, MaxBatch)
    /\ now = 0
    /\ standardized_runs = <<>>
    /\ variant_rows \in StandardizerCatalogues
    /\ variant_lookup = LoadVariantLookup(variant_rows, <<>>)
    /\ variant_lookup_simple = LoadVariantLookupSimple(variant_rows, <<>>)
    /\ lookup_args = <<>>
    /\ variant_id = <<>>
    /\ IdlePrice
    /\ IdleStd
    /\ IdleDetect
    /\ IdleColour
    /\ IdleRun
    /\ IdleExtract
    /\ IdleSnapshot

\* One call of standardize_apple_data on the batch
StandardizeBatch ==
    /\ Len(standardized_runs) < MaxRuns
    /\ standardized_runs' = Append(standardized_runs,
           StandardizeAppleData(apple_products, now, variant_lookup_simple, variant_lookup, <<>>))
    /\ pc' = "called"
    /\ UNCHANGED <<apple_products, now, price_vars, std_vars, detect_vars, variant_vars,
                   colour_vars, run_vars, extract_vars, snapshot_vars>>

\* Time passes between two calls
Tick ==
    /\ now < MaxNow
    /\ now' = now + 1
    /\ UNCHANGED <<pc, apple_products, standardized_runs, price_vars, std_vars, detect_vars,
                   variant_vars, colour_vars, run_vars, extract_vars, snapshot_vars>>

NextStandardize == StandardizeBatch \/ Tick

SpecStandardize == InitStandardize /\ [][NextStandardize]_vars

-----------------------------------------------------------------------------
(* Claims about the record standardizer *)

\* C12: standardizing the same batch twice with the same lookup tables
\* yields identical records in every field, Timestamp and Timestamp Day
\* included, whatever time passes between the two calls and whether or not
\* the records carry a scraped_at in the format.
C12_Deterministic ==
    \A i, j \in 1..Len(standardized_runs) : standardized_runs[i] = standardized_runs[j]

\* The keys of the spec fields of a raw dict
SpecKeys == {"chip", "cpu_cores", "memory", "storage", "gpu_cores", "color"}

\* No spec field of the raw dict holds a value: the key is missing or holds
\* None or ''
SpecFieldsAbsent(p) == \A k \in SpecKeys : k \notin Keys(p) \/ ~Truthy(Get(p, k))

\* The machine families and the colours a standardized record may name
KnownFamilies ==
    {MacBookAir, MacBookPro, IMac, MacMini, MacStudio, MacPro, IPadPro, IPadAir, IPadMini,
     IPad, IPhone}

KnownColours == {ColourPatterns[i][2] : i \in 1..Len(ColourPatterns)}

\* C14: a record whose spec fields are absent is standardized without an
\* error, to a Machine that is a known family or "Unknown", a Colour that is
\* a colour name or '', and the empty string in CPU, CPU Cores, HD, RAM
\* and GPU.
C14_AbsentFieldsClassified ==
    \A r \in 1..Len(standardized_runs) :
        (Len(apple_products) = 1 /\ SpecFieldsAbsent(apple_products[1])) =>
            /\ Len(standardized_runs[r].products) = 1
            /\ LET s == standardized_runs[r].products[1]
               IN  /\ s.Machine.kind = "str"
                   /\ \/ s.Machine.val = Unknown
                      \/ \E f \in KnownFamilies : BeginsWith(s.Machine.val, f)
                   /\ s.Colour.kind = "str" /\ s.Colour.val \in KnownColours \cup {<<>>}
                   /\ \A v \in {s.CPU, s.CPU_Cores, s.HD_GB, s.RAM_GB, s.GPU} : v = PyStr(<<>>)

\* The standardized records of the products whose standardization at clock
\* t does not raise, in the order of the batch
RECURSIVE Survivors(_, _)
Survivors(products, t) ==
    IF products = <<>> THEN <<>>
    ELSE LET standardized == StandardizeAppleProduct(Head(products), t,
                                 variant_lookup_simple, variant_lookup)
         IN  (IF standardized = None THEN <<>> ELSE <<standardized[1]>>)
             \o Survivors(Tail(products), t)

\* The i-th record of the batch raises when it is standardized
Raises(i) ==
    StandardizeAppleProduct(apple_products[i], now, variant_lookup_simple, variant_lookup) = None

\* C15: a batch call never raises; it returns the standardized records of
\* exactly the products whose standardization does not raise, in input
\* order.
C15_BatchIsolation ==
    \A r \in 1..Len(standardized_runs) :
        /\ ~standardized_runs[r].raised
        /\ \E t \in 0..now : standardized_runs[r].products = Survivors(apple_products, t)

\* A batch whose first record raises and whose second does not has been
\* standardized: the call returned the second record alone
C15_Witness ==
    /\ Len(apple_products) = 2
    /\ Raises(1) /\ ~Raises(2)
    /\ standardized_runs # <<>>
    /\ ~standardized_runs[1].raised
    /\ Len(standardized_runs[1].products) = 1
    /\ standardized_runs[1].products[1].Title = apple_products[2][1].value

-----------------------------------------------------------------------------
(* The pipeline run: AppleMacScraperV7Historical.__init__ and scrape_all_mac_products *)

\* The variables of the change detector other than self.google_client
detect_rest ==
    <<scraper, current_products, previous_data, price_changes, availability_changes,
      price_history, availability_history, clock, calls>>

\* The largest number of products the category pages give
MaxListed == 2

\* The points where setup_google_sheets may raise: nowhere, while it
\* authorizes (before self.google_client is assigned), while it opens the
\* spreadsheet (after self.google_client is assigned)
SetupFailures == {"none", "authorize", "open"}

\* __init__: self.google_client, self.spreadsheet and self.standardizer
\* start as None; setup_google_sheets runs when the libraries were imported,
\* returns early without the credentials file, and assigns the three in
\* this order until it raises
Construct ==
    /\ step = "new"
    /\ \E library \in BOOLEAN, credentials \in BOOLEAN, failure \in SetupFailures :
        /\ google_client' = (library /\ credentials /\ failure # "authorize")
        /\ spreadsheet' = (library /\ credentials /\ failure = "none")
        /\ standardizer' = (library /\ credentials /\ failure = "none")
    /\ step' = "load_previous_data"
    /\ UNCHANGED <<pc, listed, store_calls, returned, detect_rest, price_vars, std_vars,
                   variant_vars, colour_vars, batch_vars, extract_vars, snapshot_vars>>

\* A method that returns at once without self.google_client and otherwise
\* works on the store inside try/except: the operation is attempted when
\* the method has something to write, and it fails or succeeds (it fails
\* when self.spreadsheet is None)
StoreStep(from, to, writes) ==
    /\ step = from
    /\ IF google_client /\ writes
       THEN \E ok \in (IF spreadsheet THEN BOOLEAN ELSE {FALSE}) :
                store_calls' = Append(store_calls, [op |-> from, ok |-> ok])
       ELSE store_calls' = store_calls
    /\ step' = to
    /\ UNCHANGED <<pc, google_client, spreadsheet, standardizer, listed, returned, detect_rest,
                   price_vars, std_vars, variant_vars, colour_vars, batch_vars, extract_vars, snapshot_vars>>

\* previous_data = self.load_previous_data()
LoadPreviousData == StoreStep("load_previous_data", "scrape_category", TRUE)

\* STEP 1: the category pages give the products
ScrapeCategory ==
    /\ step = "scrape_category"
    /\ listed' \in 0..MaxListed
    /\ step' = "extract_detailed_specs"
    /\ UNCHANGED <<pc, google_client, spreadsheet, standardizer, store_calls, returned,
                   detect_rest, price_vars, std_vars, variant_vars, colour_vars, batch_vars, extract_vars, snapshot_vars>>

\* STEP 2: extract_detailed_specs on each product; it returns the product
\* whatever happens
ExtractDetailedSpecs ==
    /\ step = "extract_detailed_specs"
    /\ step' = "standardize_apple_data"
    /\ UNCHANGED <<pc, google_client, spreadsheet, standardizer, listed, store_calls, returned,
                   detect_rest, price_vars, std_vars, variant_vars, colour_vars, batch_vars, extract_vars, snapshot_vars>>

\* STEP 3: self.standardizer.standardize_apple_data(detailed_products); the
\* attribute access raises AttributeError when self.standardizer is None
StandardizeStep ==
    /\ step = "standardize_apple_data"
    /\ step' = IF standardizer THEN "detect_and_log_changes" ELSE "raised"
    /\ UNCHANGED <<pc, google_client, spreadsheet, standardizer, listed, store_calls, returned,
                   detect_rest, price_vars, std_vars, variant_vars, colour_vars, batch_vars, extract_vars, snapshot_vars>>

\* STEP 4: detect_and_log_changes writes when it found a change
DetectAndLogStep ==
    \E changes \in BOOLEAN :
        StoreStep("detect_and_log_changes", "update_current_inventory", changes /\ listed > 0)

\* STEP 5
UpdateCurrentInventory == StoreStep("update_current_inventory", "upload_standardized_to_sheets", TRUE)

\* STEP 6: upload_standardized_to_sheets returns at once for an empty batch
UploadStandardizedToSheets ==
    \E standardized \in 0..listed :
        StoreStep("upload_standardized_to_sheets", "update_history_tab", standardized > 0)

\* STEP 7
UpdateHistoryTab == StoreStep("update_history_tab", "update_standardized_history_tab", TRUE)

\* STEP 8
UpdateStandardizedHistoryTab == StoreStep("update_standardized_history_tab", "return", TRUE)

\* return detailed_products
Return ==
    /\ step = "return"
    /\ returned' = Some(listed)
    /\ step' = "returned"
    /\ UNCHANGED <<pc, google_client, spreadsheet, standardizer, listed, store_calls,
                   detect_rest, price_vars, std_vars, variant_vars, colour_vars, batch_vars, extract_vars, snapshot_vars>>

InitRun ==
    /\ pc = "start"
    /\ step = "new"
    /\ spreadsheet = FALSE
    /\ standardizer = FALSE
    /\ listed = 0
    /\ store_calls = <<>>
    /\ returned = None
    /\ IdlePrice
    /\ IdleStd
    /\ IdleDetect
    /\ IdleVariant
    /\ IdleColour
    /\ IdleBatch
    /\ IdleExtract
    /\ IdleSnapshot

NextRun ==
    \/ Construct
    \/ LoadPreviousData
    \/ ScrapeCategory
    \/ ExtractDetailedSpecs
    \/ StandardizeStep
    \/ DetectAndLogStep
    \/ UpdateCurrentInventory
    \/ UploadStandardizedToSheets
    \/ UpdateHistoryTab
    \/ UpdateStandardizedHistoryTab
    \/ Return

SpecRun == InitRun /\ [][NextRun]_vars

-----------------------------------------------------------------------------
(* Claims about the pipeline run *)

\* C16: whatever the availability of the store (libraries missing,
\* credentials absent, setup or store calls failing), the run never aborts
\* with an error: it goes on to return its products.
C16_NoFatalPath == step # "raised"

-----------------------------------------------------------------------------
(* The spec extractor: extract_detailed_specs *)

\* The regular expressions of the extractor, as sequences of elements.  All
\* of them are searched with re.IGNORECASE, so a literal is written in lower
\* case and compared with the lower-cased text.
Lit(s) == [k |-> "lit", s |-> s]
\* one character of a set: [\-‑], [\-\s]
OneOf(cs) == [k |-> "one", cs |-> cs]
\* the longest run of characters of a set: \d+ \s+ \s* [:\s]+ [:\s]*
Run(cs, min) == [k |-> "run", cs |-> cs, min |-> min]
\* (?:a|b|c): the first alternative that matches
AnyOf(subs) == [k |-> "alt", subs |-> subs]
\* (?:...)?: the group when it matches, nothing otherwise
Opt(sub) == [k |-> "opt", sub |-> sub]
\* the opening and the closing parenthesis of capturing group g
Open(g) == [k |-> "open", g |-> g]
Close(g) == [k |-> "close", g |-> g]

SpaceChars == {" ", NBSP}
SepChars == SpaceChars \cup {":"}
DashChars == {"-", NBHY}

\* No group has matched
NoGroups == [g \in 1..2 |-> [from |-> 0, to |-> 0]]

\* The match of the elements pat[k..] at position i of the text (low is the
\* text in lower case): its end and the spans of its groups, None when the
\* elements do not match there.  A run and an optional group take all they
\* can and give nothing back: in these expressions what follows a run or an
\* optional group cannot start with what it took, except the spaces before
\* the screen size of the iPad expression, whose group 2 nothing reads.
RECURSIVE MatchSeq(_, _, _, _, _)
MatchSeq(pat, k, low, i, groups) ==
    IF k > Len(pat) THEN Some([end |-> i, groups |-> groups])
    ELSE LET el == pat[k]
         IN  CASE el.k = "lit" ->
                    IF OccursAt(low, el.s, i)
                    THEN MatchSeq(pat, k + 1, low, i + Len(el.s), groups) ELSE None
               [] el.k = "one" ->
                    IF i <= Len(low) /\ low[i] \in el.cs
                    THEN MatchSeq(pat, k + 1, low, i + 1, groups) ELSE None
               [] el.k = "run" ->
                    LET e == RunEnd(low, i, el.cs)
                    IN  IF e - i >= el.min THEN MatchSeq(pat, k + 1, low, e, groups) ELSE None
               [] el.k = "alt" ->
                    LET hits == {a \in 1..Len(el.subs) : MatchSeq(el.subs[a], 1, low, i, groups) # None}
                    IN  IF hits = {} THEN None
                        ELSE LET a == CHOOSE a \in hits : \A b \in hits : a <= b
                                 r == MatchSeq(el.subs[a], 1, low, i, groups)[1]
                             IN  MatchSeq(pat, k + 1, low, r.end, r.groups)
               [] el.k = "opt" ->
                    LET r == MatchSeq(el.sub, 1, low, i, groups)
                    IN  IF r = None THEN MatchSeq(pat, k + 1, low, i, groups)
                        ELSE MatchSeq(pat, k + 1, low, r[1].end, r[1].groups)
               [] el.k = "open" ->
                    MatchSeq(pat, k + 1, low, i, [groups EXCEPT ![el.g] = [from |-> i, to |-> 0]])
               [] el.k = "close" ->
                    MatchSeq(pat, k + 1, low, i, [groups EXCEPT ![el.g].to = i])

\* re.search(pattern, text, re.IGNORECASE): the match that starts leftmost
\* from position i on, None without one
SearchFrom(pat, low, i) ==
    LET hits == {k \in i..(Len(low) + 1) : MatchSeq(pat, 1, low, k, NoGroups) # None}
    IN  IF hits = {} THEN None ELSE MatchSeq(pat, 1, low, FirstOf(hits), NoGroups)

\* match.group(g) of a search in the text; None when the group took no part
Group(text, m, g) ==
    IF m[1].groups[g].from = 0 THEN None
    ELSE Some(SubSeq(text, m[1].groups[g].from, m[1].groups[g].to - 1))

\* group 1 of re.search(pattern, text, re.IGNORECASE), None without a match
Search1(pat, text) ==
    LET m == SearchFrom(pat, Lower(text), 1)
    IN  IF m = None THEN None ELSE Group(text, m, 1)

\* (\d+(?:GB|TB)) and (\d+GB) as group 1
StorageGroup ==
    <<Open(1), Run(DigitChars, 1), AnyOf(<< <<Lit(<<"g", "b">>)>>, <<Lit(<<"t", "b">>)>> >>), Close(1)>>
MemoryGroup == <<Open(1), Run(DigitChars, 1), Lit(<<"g", "b">>), Close(1)>>

\* storage_patterns, in the order of the list
StoragePatterns ==
    << StorageGroup \o <<Run(SpaceChars, 1), Lit(<<"s", "s", "d">>)>>,
       StorageGroup \o <<Run(SpaceChars, 1), Lit(<<"s", "t", "o", "r", "a", "g", "e">>)>>,
       <<Lit(<<"s", "t", "o", "r", "a", "g", "e">>), Run(SepChars, 1)>> \o StorageGroup,
       StorageGroup \o <<Run(SpaceChars, 1), Lit(<<"i", "n", "t", "e", "r", "n", "a", "l", " ", "s", "t", "o", "r", "a", "g", "e">>)>>,
       StorageGroup \o <<Run(SpaceChars, 1), Lit(<<"o", "f", " ", "s", "t", "o", "r", "a", "g", "e">>)>>,
       <<Lit(<<"w", "i", "t", "h">>), Run(SpaceChars, 1)>> \o StorageGroup \o <<Run(SpaceChars, 1), Lit(<<"s", "s", "d">>)>>,
       <<Lit(<<"i", "n", "c", "l", "u", "d", "e", "s">>), Run(SpaceChars, 1)>> \o StorageGroup,
       <<Lit(<<"f", "e", "a", "t", "u", "r", "i", "n", "g">>), Run(SpaceChars, 1)>> \o StorageGroup,
       StorageGroup \o <<Run(SpaceChars, 0), Lit(<<"-">>), Run(SpaceChars, 0)>>,
       <<Lit(<<"-">>), Run(SpaceChars, 0)>> \o StorageGroup,
       <<Lit(<<"c", "a", "p", "a", "c", "i", "t", "y">>), Run(SepChars, 0)>> \o StorageGroup,
       <<Lit(<<"f", "l", "a", "s", "h", " ", "s", "t", "o", "r", "a", "g", "e">>), Run(SepChars, 0)>> \o StorageGroup >>

\* memory_patterns, in the order of the list
MemoryPatterns ==
    << MemoryGroup \o <<Run(SpaceChars, 1), Lit(<<"u", "n", "i", "f", "i", "e", "d", " ", "m", "e", "m", "o", "r", "y">>)>>,
       MemoryGroup \o <<Run(SpaceChars, 1), Lit(<<"m", "e", "m", "o", "r", "y">>)>>,
       <<Lit(<<"m", "e", "m", "o", "r", "y">>), Run(SepChars, 1)>> \o MemoryGroup,
       <<Lit(<<"w", "i", "t", "h">>), Run(SpaceChars, 1)>> \o MemoryGroup
           \o <<Run(SpaceChars, 1), Lit(<<"o", "f">>), Run(SpaceChars, 1), Lit(<<"u", "n", "i", "f", "i", "e", "d">>),
                Run(SpaceChars, 1), Lit(<<"m", "e", "m", "o", "r", "y">>)>>,
       MemoryGroup \o <<Run(SpaceChars, 1), Lit(<<"r", "a", "m">>)>>,
       <<Lit(<<"u", "n", "i", "f", "i", "e", "d", " ", "m", "e", "m", "o", "r", "y">>), Run(SepChars, 0)>> \o MemoryGroup >>

\* (M\d+(?:\s+Pro|\s+Max|\s+Ultra)?) as group 1
ChipGroup ==
    <<Open(1), Lit(<<"m">>), Run(DigitChars, 1),
      Opt(<<AnyOf(<< <<Run(SpaceChars, 1), Lit(<<"p", "r", "o">>)>>, <<Run(SpaceChars, 1), Lit(<<"m", "a", "x">>)>>,
                     <<Run(SpaceChars, 1), Lit(<<"u", "l", "t", "r", "a">>)>> >>)>>),
      Close(1)>>

\* chip_patterns, in the order of the list
ChipPatterns ==
    << <<Lit(<<"a", "p", "p", "l", "e", " ">>)>> \o ChipGroup,
       ChipGroup \o <<Run(SpaceChars, 1), Lit(<<"c", "h", "i", "p">>)>>,
       <<Lit(<<"a", "p", "p", "l", "e", " ">>), Open(1), Lit(<<"m">>), Run(DigitChars, 1), Close(1)>> >>

\* (\d+)[\-‑]Core CPU and (\d+)[\-‑]Core GPU
CpuCoresPattern == <<Open(1), Run(DigitChars, 1), Close(1), OneOf(DashChars), Lit(<<"c", "o", "r", "e", " ", "c", "p", "u">>)>>
GpuCoresPattern == <<Open(1), Run(DigitChars, 1), Close(1), OneOf(DashChars), Lit(<<"c", "o", "r", "e", " ", "g", "p", "u">>)>>

\* \d+(?:\.\d+)?
Decimal == <<Run(DigitChars, 1), Opt(<<Lit(<<".">>), Run(DigitChars, 1)>>)>>

\* display_patterns, in the order of the list
DisplayPatterns ==
    << <<Open(1)>> \o Decimal \o <<OneOf(DashChars), Lit(<<"i", "n", "c", "h">>), Close(1)>>,
       <<Open(1)>> \o Decimal \o <<Lit(<<"\"">>), Close(1)>>,
       <<Open(1)>> \o Decimal \o <<Close(1), Run(SpaceChars, 0), Lit(<<"i", "n", "c", "h">>)>> >>

\* [\-\s](name) for one colour name
ColourPattern(colour) == <<OneOf({"-"} \cup SpaceChars), Open(1)>> \o colour \o <<Close(1)>>

\* color_patterns, in the order of the list
ColorPatterns ==
    << ColourPattern(<<Lit(<<"s", "p", "a", "c", "e", " ">>), AnyOf(<< <<Lit(<<"g", "r", "e", "y">>)>>, <<Lit(<<"g", "r", "a", "y">>)>>, <<Lit(<<"b", "l", "a", "c", "k">>)>> >>)>>),
       ColourPattern(<<Lit(<<"s", "i", "l", "v", "e", "r">>)>>), ColourPattern(<<Lit(<<"g", "o", "l", "d">>)>>),
       ColourPattern(<<Lit(<<"r", "o", "s", "e", " ", "g", "o", "l", "d">>)>>), ColourPattern(<<Lit(<<"m", "i", "d", "n", "i", "g", "h", "t">>)>>),
       ColourPattern(<<Lit(<<"s", "t", "a", "r", "l", "i", "g", "h", "t">>)>>), ColourPattern(<<Lit(<<"s", "k", "y", " ", "b", "l", "u", "e">>)>>),
       ColourPattern(<<Lit(<<"b", "l", "u", "e">>)>>), ColourPattern(<<Lit(<<"g", "r", "e", "e", "n">>)>>),
       ColourPattern(<<Lit(<<"p", "i", "n", "k">>)>>), ColourPattern(<<Lit(<<"p", "u", "r", "p", "l", "e">>)>>),
       ColourPattern(<<Lit(<<"y", "e", "l", "l", "o", "w">>)>>), ColourPattern(<<Lit(<<"o", "r", "a", "n", "g", "e">>)>>),
       ColourPattern(<<Lit(<<"r", "e", "d">>)>>) >>

\* iPhone\s+(\d+)(?:\s+(Pro|Pro Max|Plus|mini))?
IPhonePattern ==
    <<Lit(<<"i", "p", "h", "o", "n", "e">>), Run(SpaceChars, 1), Open(1), Run(DigitChars, 1), Close(1),
      Opt(<<Run(SpaceChars, 1), Open(2),
            AnyOf(<< <<Lit(<<"p", "r", "o">>)>>, <<Lit(<<"p", "r", "o", " ", "m", "a", "x">>)>>, <<Lit(<<"p", "l", "u", "s">>)>>, <<Lit(<<"m", "i", "n", "i">>)>> >>),
            Close(2)>>)>>

\* iPad\s+(Pro|Air|mini)?(?:\s+(\d+(?:\.\d+)?)-?inch)?
IPadPattern ==
    <<Lit(<<"i", "p", "a", "d">>), Run(SpaceChars, 1),
      Opt(<<Open(1), AnyOf(<< <<Lit(<<"p", "r", "o">>)>>, <<Lit(<<"a", "i", "r">>)>>, <<Lit(<<"m", "i", "n", "i">>)>> >>), Close(1)>>),
      Opt(<<Run(SpaceChars, 1), Open(2)>> \o Decimal \o <<Close(2), Opt(<<Lit(<<"-">>)>>), Lit(<<"i", "n", "c", "h">>)>>)>>

\* The bounds of the plausibility gates
MinStorageGB == 256
MaxStorageTB == 8
MinMemoryGB == 8
MaxMemoryGB == 128

\* re.search(r'[GT]B', candidate).group() of a candidate that is digits and
\* a two-letter unit: the unit when it is written in capitals; None when
\* the search finds nothing and .group() raises AttributeError
StorageUnit(candidate) ==
    LET unit == SubSeq(candidate, Len(candidate) - 1, Len(candidate))
    IN  IF unit \in {<<"G", "B">>, <<"T", "B">>} THEN Some(unit) ELSE None

\* The storage loop from the i-th pattern on: the accepted candidate (None
\* when no pattern gives one), or a raise
RECURSIVE StorageLoop(_, _)
StorageLoop(combined_text, i) ==
    IF i > Len(StoragePatterns) THEN [raised |-> FALSE, value |-> PyNone]
    ELSE LET storage_match == Search1(StoragePatterns[i], combined_text)
         IN  IF storage_match = None THEN StorageLoop(combined_text, i + 1)
             ELSE LET storage_candidate == storage_match[1]
                      storage_num == DigitsValue(FirstNumber(storage_candidate)[1])
                      storage_unit == StorageUnit(storage_candidate)
                  IN  IF storage_unit = None THEN [raised |-> TRUE, value |-> PyNone]
                      ELSE IF \/ storage_unit[1] = <<"G", "B">> /\ storage_num >= MinStorageGB
                              \/ storage_unit[1] = <<"T", "B">> /\ storage_num <= MaxStorageTB
                      THEN [raised |-> FALSE, value |-> PyStr(storage_candidate)]
                      ELSE StorageLoop(combined_text, i + 1)

\* The memory loop from the i-th pattern on
RECURSIVE MemoryLoop(_, _)
MemoryLoop(combined_text, i) ==
    IF i > Len(MemoryPatterns) THEN PyNone
    ELSE LET memory_match == Search1(MemoryPatterns[i], combined_text)
         IN  IF memory_match = None THEN MemoryLoop(combined_text, i + 1)
             ELSE LET memory_num == DigitsValue(FirstNumber(memory_match[1])[1])
                  IN  IF MinMemoryGB <= memory_num /\ memory_num <= MaxMemoryGB
                      THEN PyStr(memory_match[1])
                      ELSE MemoryLoop(combined_text, i + 1)

\* Group 1 of the first pattern of a list that matches, from the i-th on
RECURSIVE FirstMatch(_, _, _)
FirstMatch(patterns, text, i) ==
    IF i > Len(patterns) THEN None
    ELSE LET m == Search1(patterns[i], text)
         IN  IF m # None THEN m ELSE FirstMatch(patterns, text, i + 1)

\* specs['chip']
ChipSpec(combined_text) ==
    LET chip_match == FirstMatch(ChipPatterns, combined_text, 1)
    IN  IF chip_match = None THEN PyNone ELSE PyStr(chip_match[1])

\* specs['cpu_cores'] and specs['gpu_cores']
CoresSpec(pattern, suffix, combined_text) ==
    LET m == Search1(pattern, combined_text)
    IN  IF m = None THEN PyNone ELSE PyStr(m[1] \o suffix)

\* specs['display_size']
DisplaySpec(product_name) ==
    LET display_match == FirstMatch(DisplayPatterns, product_name, 1)
    IN  IF display_match = None THEN PyNone
        ELSE IF ~Contains(display_match[1], <<"i", "n", "c", "h">>) THEN PyStr(display_match[1] \o <<"-", "i", "n", "c", "h">>)
        ELSE PyStr(display_match[1])

\* specs['color']
ColorSpec(product_name) ==
    LET color_match == FirstMatch(ColorPatterns, product_name, 1)
    IN  IF color_match = None THEN PyNone ELSE PyStr(Strip(color_match[1]))

\* specs['connectivity']
ConnectivitySpec(combined_text, product_name) ==
    IF Contains(combined_text, <<"G", "i", "g", "a", "b", "i", "t", " ", "E", "t", "h", "e", "r", "n", "e", "t">>) THEN PyStr(<<"G", "i", "g", "a", "b", "i", "t", " ", "E", "t", "h", "e", "r", "n", "e", "t">>)
    ELSE IF Contains(combined_text, <<"1", "0", "G", "b", " ", "E", "t", "h", "e", "r", "n", "e", "t">>) THEN PyStr(<<"1", "0", "G", "b", " ", "E", "t", "h", "e", "r", "n", "e", "t">>)
    ELSE IF \/ Contains(combined_text, <<"W", "i", "-", "F", "i", " ", "+", " ", "C", "e", "l", "l", "u", "l", "a", "r">>)
            \/ Contains(combined_text, <<"W", "i", "F", "i", " ", "+", " ", "C", "e", "l", "l", "u", "l", "a", "r">>)
    THEN PyStr(<<"W", "i", "-", "F", "i", " ", "+", " ", "C", "e", "l", "l", "u", "l", "a", "r">>)
    ELSE IF /\ Contains(combined_text, <<"C", "e", "l", "l", "u", "l", "a", "r">>)
            /\ (Contains(product_name, <<"i", "P", "a", "d">>) \/ Contains(product_name, <<"i", "P", "h", "o", "n", "e">>))
    THEN PyStr(<<"W", "i", "-", "F", "i", " ", "+", " ", "C", "e", "l", "l", "u", "l", "a", "r">>)
    ELSE IF Contains(combined_text, <<"W", "i", "-", "F", "i">>) THEN PyStr(<<"W", "i", "-", "F", "i">>)
    ELSE PyNone

\* specs['model_variant']: the iPad value replaces the iPhone value; None
\* when the key is not added
ModelVariantSpec(product_name) ==
    LET iphone_match == SearchFrom(IPhonePattern, Lower(product_name), 1)
        ipad_match == SearchFrom(IPadPattern, Lower(product_name), 1)
        OrEmpty(g) == IF g = None THEN <<>> ELSE g[1]
    IN  IF ipad_match # None
        THEN Some(Strip(<<"i", "P", "a", "d", " ">> \o OrEmpty(Group(product_name, ipad_match, 1))))
        ELSE IF iphone_match # None
        THEN Some(Strip(<<"i", "P", "h", "o", "n", "e", " ">> \o Group(product_name, iphone_match, 1)[1] \o <<" ">>
                        \o OrEmpty(Group(product_name, iphone_match, 2))))
        ELSE None

\* dict.update with a list of items
RECURSIVE Update(_, _)
Update(d, items) ==
    IF items = <<>> THEN d
    ELSE Update(Put(d, Head(items).key, Head(items).value), Tail(items))

\* extract_detailed_specs of a product dict whose name is a string; page is
\* the text of the product page, None when get_page returned no document.
\* The result is the product returned and whether the handler of the try
\* block ran.
ExtractSpecs(product, page) ==
    IF ~Truthy(DictGet(product, "url", PyNone)) \/ page = None
    THEN [product |-> product, failed |-> FALSE]
    ELSE LET product_name == DictGet(product, "name", PyStr(<<>>)).val
             combined_text == product_name \o <<" ">> \o page[1]
             storage == StorageLoop(combined_text, 1)
             model_variant == ModelVariantSpec(product_name)
             specs ==
                << [key |-> "memory", value |-> MemoryLoop(combined_text, 1)],
                   [key |-> "storage", value |-> storage.value],
                   [key |-> "chip", value |-> ChipSpec(combined_text)],
                   [key |-> "display_size", value |-> DisplaySpec(product_name)],
                   [key |-> "color", value |-> ColorSpec(product_name)],
                   [key |-> "connectivity", value |-> ConnectivitySpec(combined_text, product_name)],
                   [key |-> "cpu_cores", value |-> CoresSpec(CpuCoresPattern, <<"-", "C", "o", "r", "e", " ", "C", "P", "U">>, combined_text)],
                   [key |-> "gpu_cores", value |-> CoresSpec(GpuCoresPattern, <<"-", "C", "o", "r", "e", " ", "G", "P", "U">>, combined_text)] >>
                \o (IF model_variant = None THEN <<>>
                    ELSE <<[key |-> "model_variant", value |-> PyStr(model_variant[1])]>>)
         IN  IF storage.raised THEN [product |-> product, failed |-> TRUE]
             ELSE [product |-> Update(product, specs), failed |-> FALSE]

-----------------------------------------------------------------------------
(* The extractor applied to bounded product pages *)

\* The sentences a product page is put together from: storage in capitals
\* and in lower case, inside and outside the gate; memory inside and
\* outside its gate; the chip, the cores and the connectivity
PageChunks ==
    {<<"5", "1", "2", "G", "B", " ", "S", "S", "D">>, <<"5", "1", "2", "g", "b", " ", "S", "S", "D">>, <<"1", "2", "8", "G", "B", " ", "S", "S", "D">>, <<"1", "2", "8", "g", "b", " ", "S", "S", "D">>, <<"S", "t", "o", "r", "a", "g", "e", ":", " ", "1", "T", "B">>,
     <<"1", "6", "G", "B", " ", "u", "n", "i", "f", "i", "e", "d", " ", "m", "e", "m", "o", "r", "y">>, <<"4", "G", "B", " ", "m", "e", "m", "o", "r", "y">>, <<"A", "p", "p", "l", "e", " ", "M", "4", " ", "P", "r", "o", " ", "c", "h", "i", "p">>,
     <<"1", "0", "-", "C", "o", "r", "e", " ", "C", "P", "U", " ", "a", "n", "d", " ", "1", "0", NBHY, "c", "o", "r", "e", " ", "G", "P", "U">>, <<"W", "i", "-", "F", "i">>}

\* The number of sentences of a page
MaxPageParts == 2

\* '. '.join(parts)
RECURSIVE JoinSentences(_)
JoinSentences(parts) ==
    IF parts = <<>> THEN <<>>
    ELSE IF Len(parts) = 1 THEN parts[1]
    ELSE parts[1] \o <<".", " ">> \o JoinSentences(Tail(parts))

\* The pages: the text of a document, or no document
Pages == {Some(JoinSentences(parts)) : parts \in SeqsUpTo(PageChunks, MaxPageParts)} \cup {None}

\* The listings the category pages give: a Mac and an iPad with their URL,
\* three names with a colour of two words, and a listing without a URL
Listings ==
    {<<[key |-> "name", value |-> PyStr(<<"R", "e", "f", "u", "r", "b", "i", "s", "h", "e", "d", " ", "1", "2", "-", "i", "n", "c", "h", " ", "M", "a", "c", "B", "o", "o", "k", " ", "-", " ", "R", "o", "s", "e", " ", "G", "o", "l", "d">>)],
       [key |-> "url", value |-> PyStr(<<"/", "s", "h", "o", "p", "/", "p", "r", "o", "d", "u", "c", "t", "/", "c">>)]>>,
     <<[key |-> "name", value |-> PyStr(<<"R", "e", "f", "u", "r", "b", "i", "s", "h", "e", "d", " ", "1", "3", "-", "i", "n", "c", "h", " ", "M", "a", "c", "B", "o", "o", "k", " ", "A", "i", "r", " ", "-", " ", "S", "k", "y", " ", "B", "l", "u", "e">>)],
       [key |-> "url", value |-> PyStr(<<"/", "s", "h", "o", "p", "/", "p", "r", "o", "d", "u", "c", "t", "/", "d">>)]>>,
     <<[key |-> "name", value |-> PyStr(<<"R", "e", "f", "u", "r", "b", "i", "s", "h", "e", "d", " ", "1", "3", "-", "i", "n", "c", "h", " ", "M", "a", "c", "B", "o", "o", "k", " ", "A", "i", "r", " ", "-", " ", "S", "p", "a", "c", "e", " ", "G", "r", "e", "y">>)],
       [key |-> "url", value |-> PyStr(<<"/", "s", "h", "o", "p", "/", "p", "r", "o", "d", "u", "c", "t", "/", "e">>)]>>,
     <<[key |-> "name", value |-> PyStr(<<"R", "e", "f", "u", "r", "b", "i", "s", "h", "e", "d", " ", "1", "3", "-", "i", "n", "c", "h", " ", "M", "a", "c", "B", "o", "o", "k", " ", "A", "i", "r", " ", "-", " ", "M", "i", "d", "n", "i", "g", "h", "t">>)],
       [key |-> "url", value |-> PyStr(<<"/", "s", "h", "o", "p", "/", "p", "r", "o", "d", "u", "c", "t", "/", "a">>)]>>,
     <<[key |-> "name", value |-> PyStr(<<"R", "e", "f", "u", "r", "b", "i", "s", "h", "e", "d", " ", "i", "P", "a", "d", " ", "P", "r", "o", " ", "1", "1", "-", "i", "n", "c", "h", " ", "-", " ", "2", "5", "6", "G", "B", " ", "-", " ", "S", "i", "l", "v", "e", "r">>)],
       [key |-> "url", value |-> PyStr(<<"/", "s", "h", "o", "p", "/", "p", "r", "o", "d", "u", "c", "t", "/", "b">>)]>>,
     <<[key |-> "name", value |-> PyStr(<<"R", "e", "f", "u", "r", "b", "i", "s", "h", "e", "d", " ", "M", "a", "c", " ", "m", "i", "n", "i">>)],
       [key |-> "url", value |-> PyNone]>>}

InitExtract ==
    /\ pc = "start"
    /\ listing \in Listings
    /\ page_text \in Pages
    /\ extracted = <<>>
    /\ IdlePrice
    /\ IdleStd
    /\ IdleDetect
    /\ IdleVariant
    /\ IdleColour
    /\ IdleBatch
    /\ IdleRun
    /\ IdleSnapshot

\* One call of extract_detailed_specs
ExtractDetailedSpecsCall ==
    /\ pc = "start"
    /\ extracted' = ExtractSpecs(listing, page_text)
    /\ pc' = "done"
    /\ UNCHANGED <<listing, page_text, price_vars, std_vars, detect_vars, variant_vars,
                   colour_vars, batch_vars, run_vars, snapshot_vars>>

NextExtract == ExtractDetailedSpecsCall

SpecExtract == InitExtract /\ [][NextExtract]_vars

-----------------------------------------------------------------------------
(* Claims about the spec extractor *)

\* The extractor went past its two early returns: the listing has a URL and
\* the page was fetched
PageRead == pc = "done" /\ Truthy(DictGet(listing, "url", PyNone)) /\ page_text # None

\* f"{product_name} {page_text}"
CombinedText == DictGet(listing, "name", PyStr(<<>>)).val \o <<" ">> \o page_text[1]

\* A storage candidate passes the plausibility gate: unit GB with n >= 256,
\* or unit TB with n <= 8
PassesGate(candidate) ==
    LET n == DigitsValue(SubSeq(candidate, 1, Len(candidate) - 2))
        unit == SubSeq(candidate, Len(candidate) - 1, Len(candidate))
    IN  (unit = <<"G", "B">> /\ n >= 256) \/ (unit = <<"T", "B">> /\ n <= 8)

\* The candidate of the first storage pattern, in the order of the list,
\* whose candidate passes the gate; None when there is none
RECURSIVE FirstAccepted(_)
FirstAccepted(i) ==
    IF i > Len(StoragePatterns) THEN PyNone
    ELSE LET m == Search1(StoragePatterns[i], CombinedText)
         IN  IF m # None /\ PassesGate(m[1]) THEN PyStr(m[1]) ELSE FirstAccepted(i + 1)

\* C19: a storage value the extractor sets passes the gate; a candidate
\* that fails the gate is passed over for the candidate of the next
\* pattern, and storage stays absent when no pattern gives an accepted
\* candidate.
C19_StorageGate ==
    PageRead =>
        LET storage == DictGet(extracted.product, "storage", PyNone)
        IN  /\ storage # PyNone => PassesGate(storage.val)
            /\ storage = FirstAccepted(1)

\* The fields other than storage, with the value the page gives each one
OtherFields ==
    LET product_name == DictGet(listing, "name", PyStr(<<>>)).val
    IN  << [key |-> "memory", value |-> MemoryLoop(CombinedText, 1)],
           [key |-> "chip", value |-> ChipSpec(CombinedText)],
           [key |-> "cpu_cores", value |-> CoresSpec(CpuCoresPattern, <<"-", "C", "o", "r", "e", " ", "C", "P", "U">>, CombinedText)],
           [key |-> "gpu_cores", value |-> CoresSpec(GpuCoresPattern, <<"-", "C", "o", "r", "e", " ", "G", "P", "U">>, CombinedText)],
           [key |-> "display_size", value |-> DisplaySpec(product_name)],
           [key |-> "color", value |-> ColorSpec(product_name)],
           [key |-> "connectivity", value |-> ConnectivitySpec(CombinedText, product_name)] >>

\* C20: whatever the storage text looks like, every other field that
\* matches is added to the product with its value.
C20_FieldsIndependent ==
    PageRead =>
        \A i \in 1..Len(OtherFields) :
            OtherFields[i].value # PyNone =>
                DictGet(extracted.product, OtherFields[i].key, PyNone) = OtherFields[i].value

\* The colours of two words that the claim names
MultiWordColours == {<<"S", "k", "y", " ", "B", "l", "u", "e">>, <<"R", "o", "s", "e", " ", "G", "o", "l", "d">>, <<"S", "p", "a", "c", "e", " ", "G", "r", "e", "y">>}

\* C21: for a product name containing a colour of two words of the list,
\* the colour the extractor sets is that colour, never the single word at
\* its end.  Pages on which the extractor's handler ran are left aside
\* (they lose every field, C20).
C21_NoShadowing ==
    PageRead /\ ~extracted.failed =>
        \A colour \in MultiWordColours :
            Contains(DictGet(listing, "name", PyStr(<<>>)).val, <<" ">> \o colour) =>
                DictGet(extracted.product, "color", PyNone) = PyStr(colour)

-----------------------------------------------------------------------------
(* The standardizer applied to iPad and iPhone records *)

\* The generation tokens of the iPad table that are ordinals
OrdinalTokens == {<<"3", "r", "d">>, <<"4", "t", "h">>, <<"5", "t", "h">>, <<"6", "t", "h">>}

\* The entries of the iPad table whose generation token is an ordinal
OrdinalEntries ==
    {i \in 1..Len(IPAD_MODEL_NUMBERS) : IPAD_MODEL_NUMBERS[i].key[3] \in OrdinalTokens}

\* The title of a listing for an entry of the iPad table, as the store
\* writes it: the screen size when the entry has one, the subtype, the
\* connectivity, storage and colour, and the generation in parentheses
EntryName(key) ==
    <<"R", "e", "f", "u", "r", "b", "i", "s", "h", "e", "d", " ">>
    \o (IF key[2] = <<>> THEN <<>> ELSE key[2] \o <<"-", "i", "n", "c", "h", " ">>)
    \o (CASE key[1] = kw_ipad_pro -> IPadPro
          [] key[1] = kw_ipad_air -> IPadAir
          [] key[1] = kw_ipad_mini -> IPadMini
          [] OTHER -> IPad)
    \o (IF key[4] = <<"c", "e", "l", "l", "u", "l", "a", "r">> THEN <<" ", "W", "i", "-", "F", "i", " ", "+", " ", "C", "e", "l", "l", "u", "l", "a", "r">> ELSE <<" ", "W", "i", "-", "F", "i">>)
    \o <<" ", "2", "5", "6", "G", "B", " ", "-", " ", "S", "i", "l", "v", "e", "r", " ", "(">> \o key[3] \o <<" ", "g", "e", "n", "e", "r", "a", "t", "i", "o", "n", ")">>

\* The names of the device records: one per ordinal entry of the iPad
\* table, iPads named by their chip, an iPad the table does not hold, and
\* iPhones inside and outside the year table
DeviceNames ==
    {EntryName(IPAD_MODEL_NUMBERS[i].key) : i \in OrdinalEntries}
    \cup {<<"R", "e", "f", "u", "r", "b", "i", "s", "h", "e", "d", " ", "1", "1", "-", "i", "n", "c", "h", " ", "i", "P", "a", "d", " ", "A", "i", "r", " ", "W", "i", "-", "F", "i", " ", "1", "2", "8", "G", "B", " ", "-", " ", "B", "l", "u", "e", " ", "(", "M", "2", ")">>,
          <<"R", "e", "f", "u", "r", "b", "i", "s", "h", "e", "d", " ", "1", "3", "-", "i", "n", "c", "h", " ", "i", "P", "a", "d", " ", "P", "r", "o", " ", "W", "i", "-", "F", "i", " ", "+", " ", "C", "e", "l", "l", "u", "l", "a", "r", " ", "1", "T", "B", " ", "-", " ", "S", "i", "l", "v", "e", "r", " ", "(", "M", "4", ")">>,
          <<"R", "e", "f", "u", "r", "b", "i", "s", "h", "e", "d", " ", "i", "P", "a", "d", " ", "W", "i", "-", "F", "i", " ", "6", "4", "G", "B", " ", "-", " ", "S", "i", "l", "v", "e", "r", " ", "(", "9", "t", "h", " ", "g", "e", "n", "e", "r", "a", "t", "i", "o", "n", ")">>,
          <<"R", "e", "f", "u", "r", "b", "i", "s", "h", "e", "d", " ", "i", "P", "h", "o", "n", "e", " ", "1", "4", " ", "P", "r", "o", " ", "2", "5", "6", "G", "B", " ", "-", " ", "D", "e", "e", "p", " ", "P", "u", "r", "p", "l", "e">>,
          <<"R", "e", "f", "u", "r", "b", "i", "s", "h", "e", "d", " ", "i", "P", "h", "o", "n", "e", " ", "1", "5", " ", "P", "r", "o", " ", "M", "a", "x", " ", "1", "T", "B", " ", "-", " ", "N", "a", "t", "u", "r", "a", "l", " ", "T", "i", "t", "a", "n", "i", "u", "m">>,
          <<"R", "e", "f", "u", "r", "b", "i", "s", "h", "e", "d", " ", "i", "P", "h", "o", "n", "e", " ", "S", "E", " ", "6", "4", "G", "B", " ", "-", " ", "M", "i", "d", "n", "i", "g", "h", "t", " ", "(", "3", "r", "d", " ", "g", "e", "n", "e", "r", "a", "t", "i", "o", "n", ")">>,
          <<"R", "e", "f", "u", "r", "b", "i", "s", "h", "e", "d", " ", "i", "P", "h", "o", "n", "e", " ", "8", " ", "6", "4", "G", "B", " ", "-", " ", "G", "o", "l", "d">>}

\* The M-series chip the product page of a device names: the chip of the
\* title, or the chip of an iPad Pro or iPad Air of the stated generation;
\* '' for a device without one
PageChip(n) ==
    IF Contains(n, <<"(", "M", "2", ")">>) THEN <<"M", "2">>
    ELSE IF Contains(n, <<"(", "M", "4", ")">>) THEN <<"M", "4">>
    ELSE IF Contains(n, IPadPro) \/ Contains(n, IPadAir)
    THEN IF Contains(n, <<"(", "3", "r", "d">>) \/ Contains(n, <<"(", "5", "t", "h">>) THEN <<"M", "1">>
         ELSE IF Contains(n, <<"(", "4", "t", "h">>) \/ Contains(n, <<"(", "6", "t", "h">>) THEN <<"M", "2">>
         ELSE <<>>
    ELSE <<>>

\* The spec fields of a device record: none, the storage alone, or the
\* chip and the storage the product page gave
DeviceSpecs(n) ==
    {<<>>, <<[key |-> "storage", value |-> PyStr(<<"5", "1", "2", "G", "B">>)]>>}
    \cup (IF PageChip(n) = <<>>
          THEN {<<[key |-> "storage", value |-> PyStr(<<"1", "T", "B">>)]>>,
                <<[key |-> "storage", value |-> PyStr(<<"1", "0", "0", "0", "G", "B">>)]>>}
          ELSE {<<[key |-> "chip", value |-> PyStr(PageChip(n))],
                  [key |-> "storage", value |-> PyStr(<<"1", "T", "B">>)]>>,
                <<[key |-> "chip", value |-> PyStr(PageChip(n))],
                  [key |-> "storage", value |-> PyStr(<<"1", "0", "0", "0", "G", "B">>)]>>})

DeviceRecords ==
    UNION {{<<[key |-> "name", value |-> PyStr(n)],
              [key |-> "current_price", value |-> PyInt(<<"4", "9", "9">>)],
              [key |-> "url", value |-> PyStr(<<"/", "s", "h", "o", "p", "/", "p", "r", "o", "d", "u", "c", "t", "/", "b">>)]>> \o rest \o ScrapedAt :
                rest \in DeviceSpecs(n)} : n \in DeviceNames}

InitDevices ==
    /\ pc = "start"
    /\ apple_products \in {<<record>> : record \in DeviceRecords}
    /\ now = 0
    /\ standardized_runs = <<>>
    /\ variant_rows \in StandardizerCatalogues
    /\ variant_lookup = LoadVariantLookup(variant_rows, <<>>)
    /\ variant_lookup_simple = LoadVariantLookupSimple(variant_rows, <<>>)
    /\ lookup_args = <<>>
    /\ variant_id = <<>>
    /\ IdlePrice
    /\ IdleStd
    /\ IdleDetect
    /\ IdleColour
    /\ IdleRun
    /\ IdleExtract
    /\ IdleSnapshot

SpecDevices == InitDevices /\ [][NextStandardize]_vars

-----------------------------------------------------------------------------
(* Claims about iPad and iPhone records, checked under SpecDevices *)

\* The canonical records the calls so far returned
DeviceResults ==
    {standardized_runs[r].products[i] :
        r \in 1..Len(standardized_runs), i \in 1..Len(apple_products)}

\* The digits that follow "iPhone " in a Machine value, '' when none do
GenerationOf(machine) ==
    IF OccursAt(machine, IPhone \o <<" ">>, 1)
    THEN SubSeq(machine, 8, RunEnd(machine, 8, DigitChars) - 1)
    ELSE <<>>

\* The year the static tables give a canonical record: by its model number
\* for an iPad, by its generation number for an iPhone, '' when the table
\* does not hold it
TableYear(record) ==
    IF Contains(record.Machine.val, IPad)
    THEN DictGet(ipad_model_years, record.Model.val, <<>>)
    ELSE DictGet(iphone_years, GenerationOf(record.Machine.val), <<>>)

\* C22: the Year of an iPad or iPhone record is the year of the static
\* table for its model number (iPad) or generation number (iPhone),
\* whatever chip the record carries, and empty when the table does not
\* hold the model number or the generation.
C22_YearFromTable ==
    \A record \in DeviceResults :
        IsPhoneOrPad(record.Machine.val) => record.Year = PyStr(TableYear(record))

\* C23: for every entry of the iPad table whose generation token is an
\* ordinal, the record of a listing that states the entry's subtype, screen
\* size, "<ordinal> generation" and connectivity carries the entry's model
\* number.
C23_OrdinalEntriesResolve ==
    \A record \in DeviceResults : \A i \in OrdinalEntries :
        record.Title.val = EntryName(IPAD_MODEL_NUMBERS[i].key) =>
            record.Model.val = IPAD_MODEL_NUMBERS[i].value

\* A string of one or more digits
IsNumber(s) == s # <<>> /\ \A i \in 1..Len(s) : IsDigit(s[i])

\* The canonical form of a storage value: '' for none, "<n>TB", or a
\* number of GB that is not a whole multiple of 1000 from 1000 on
CanonicalStorage(hd) ==
    \/ hd = <<>>
    \/ /\ Len(hd) > 2
       /\ SubSeq(hd, Len(hd) - 1, Len(hd)) = TB
       /\ IsNumber(SubSeq(hd, 1, Len(hd) - 2))
    \/ /\ IsNumber(hd)
       /\ ~(DigitsValue(hd) >= 1000 /\ DigitsValue(hd) % 1000 = 0)

\* C24: the HD value of every canonical record is in canonical form,
\* whether it came from the storage field or from the product name.
C24_StorageCanonical ==
    \A record \in DeviceResults : CanonicalStorage(record.HD_GB.val)

-----------------------------------------------------------------------------
(* The screen size in the Machine value, checked under SpecMachine *)

\* The device families in the order the classifier tests their keywords,
\* each with the name it is given and whether its branch reads screen_size
Families ==
    << [keyword |-> kw_macbook_air, title |-> MacBookAir, sized |-> TRUE],
       [keyword |-> kw_macbook_pro, title |-> MacBookPro, sized |-> TRUE],
       [keyword |-> kw_imac, title |-> IMac, sized |-> TRUE],
       [keyword |-> kw_mac_mini, title |-> MacMini, sized |-> FALSE],
       [keyword |-> kw_mac_studio, title |-> MacStudio, sized |-> FALSE],
       [keyword |-> kw_mac_pro, title |-> MacPro, sized |-> FALSE],
       [keyword |-> kw_ipad_pro, title |-> IPadPro, sized |-> TRUE],
       [keyword |-> kw_ipad_air, title |-> IPadAir, sized |-> TRUE],
       [keyword |-> kw_ipad_mini, title |-> IPadMini, sized |-> FALSE],
       [keyword |-> kw_ipad, title |-> IPad, sized |-> TRUE],
       [keyword |-> kw_iphone, title |-> IPhone, sized |-> FALSE] >>

\* The first family, in the classifier's order, whose keyword the
\* normalized name holds; 0 when it holds none
FamilyOf(name_normalized) ==
    LET held == {f \in 1..Len(Families) : Contains(name_normalized, Families[f].keyword)}
    IN  IF held = {} THEN 0 ELSE FirstOf(held)

\* The size a name carries, written "<n>-inch": that of its size piece
SizeCarried(text) ==
    LET pieces == {c \in SizeChunks : Contains(text, c)}
    IN  IF pieces = {} THEN <<>>
        ELSE LET c == CHOOSE c \in pieces : TRUE
             IN  Replace(Replace(Tail(c), <<NBHY>>, <<"-">>), <<" ", "i">>, <<"-", "i">>)

\* s ends with the suffix
EndsWith(s, suffix) == Len(s) >= Len(suffix) /\ SubSeq(s, Len(s) - Len(suffix) + 1, Len(s)) = suffix

PriceShape(r, v) ==
    /\ \/ r.original_price = None /\ r.savings = None /\ r.discount_percentage = None
       \/ r.original_price # None /\ r.savings # None /\ r.discount_percentage # None
    /\ r.savings # None =>
        /\ r.current_price # None
        /\ r.original_price[1] > r.current_price[1]
        /\ r.savings[1] > 0
        /\ Len(v) = 2 => r.savings[1] = r.original_price[1] - r.current_price[1]
        /\ Len(v) >= 3 =>
             Abs((r.original_price[1] - r.current_price[1]) - r.savings[1]) <= 2 * 100

\* C26: in every result of either parser, original_price, savings and
\* discount_percentage are all present or all absent; when present,
\* current_price is present, original > current, savings > 0, and savings
\* is original - current exactly for two values and within 2 for three.
C26_PriceShape ==
    /\ PriceShape(prices, price_values)
    /\ PriceShape(simple_prices, simple_price_values)

\* Three values whose third is within 2 of the difference, but not equal
\* to it, were parsed into a full result
C26_Witness ==
    /\ pc = "done"
    /\ price_values = <<100000, 150000, 50200>>
    /\ prices.savings = Some(50200)
    /\ prices.original_price = Some(150000)

-----------------------------------------------------------------------------
(* One event per SKU, checked under SpecDetect *)

\* The last product of the current list with the SKU
LastWithSku(sku) ==
    current_products[CHOOSE i \in 1..Len(current_products) :
        /\ current_products[i].model_sku = Some(sku)
        /\ \A j \in (i + 1)..Len(current_products) :
              current_products[j].model_sku # Some(sku)]

\* The SKUs of the rows of a list of events
EventSkus(rows) == {rows[i].model_sku : i \in 1..Len(rows)}

\* The rows of a list of availability events of one type
OfType(rows, change_type) ==
    {rows[i].model_sku : i \in {k \in 1..Len(rows) : rows[k].change_type = change_type}}

\* C27: in one detection call every SKU receives at most one event: no
\* list holds a SKU twice and the SKUs with APPEARED, DISAPPEARED and
\* price-change events are pairwise disjoint; a SKU listed more than once
\* is compared by its last occurrence; a product without a SKU gives no
\* event (every event carries a SKU of the list or of the snapshot).
C27_OneEventPerSku ==
    \A c \in 1..Len(calls) :
        LET price == calls[c].price_changes
            availability == calls[c].availability_changes
        IN  /\ Cardinality(EventSkus(price)) = Len(price)
            /\ Cardinality(EventSkus(availability)) = Len(availability)
            /\ EventSkus(price) \cap EventSkus(availability) = {}
            /\ OfType(availability, "APPEARED") \cap OfType(availability, "DISAPPEARED") = {}
            /\ EventSkus(price) \cup EventSkus(availability) \subseteq SKUs
            /\ \A i \in 1..Len(price) :
                  Some(price[i].new_price) = ToFloat(LastWithSku(price[i].model_sku).current_price)
            /\ \A i \in 1..Len(availability) :
                  availability[i].change_type = "APPEARED" =>
                      availability[i].price = LastWithSku(availability[i].model_sku).current_price

\* A call compared a list that holds one SKU twice, at two prices, and a
\* product without a SKU, and found the price of the SKU changed
C27_Witness ==
    /\ Len(calls) > 0
    /\ Len(current_products) = 2
    /\ current_products[1].model_sku # None
    /\ current_products[1].model_sku = current_products[2].model_sku
    /\ current_products[1].current_price # current_products[2].current_price
    /\ Len(calls[1].price_changes) = 1

-----------------------------------------------------------------------------
(* Runs of scrape_all_mac_products one after another, on the store they share *)

\* The number of runs
MaxRunCount == 2

\* The row update_current_inventory writes for one product: str(value) of
\* each field, '' for None.  The sheet takes the text as typed
\* (USER_ENTERED): a number becomes a number cell, '' an empty cell.
SheetRow(product) ==
    [model_sku |-> product.model_sku, name |-> product.name,
     current_price |-> product.current_price]

\* Rows for the first product only
SheetRowsFirstOnly(products) ==
    IF products = <<>> THEN <<>> ELSE <<SheetRow(products[1])>>

\* The data rows update_current_inventory uploads, one per product
SheetRows(products) == [i \in 1..Len(products) |-> SheetRow(products[i])]

\* What get_all_records gives for a price cell: '' for an empty cell; for
\* a number cell the number, or its text when the sheet shows the column as
\* currency
Renderings == {"number", "text"}

ReadCell(cell, rendering) ==
    IF cell.kind = "num" /\ rendering = "text" THEN TextPrice ELSE cell

\* The loop of load_previous_data over the records of the sheet
RECURSIVE LoadRecords(_, _, _)
LoadRecords(records, rendering, d) ==
    IF records = <<>> THEN d
    ELSE LET record == Head(records)
         IN  LoadRecords(Tail(records), rendering,
                 IF record.model_sku # None
                 THEN Put(d, record.model_sku[1],
                          [name |-> record.name,
                           current_price |-> ReadCell(record.current_price, rendering)])
                 ELSE d)

\* What the category pages give, page by page: no document (None), or
\* the products of the page.  The first page lists SKU1 at one of two
\* prices, the second SKU2 or a product without a SKU.
PageListings ==
    << {None, Some(<<>>)}
         \cup {Some(<<[model_sku |-> Some("SKU1"), name |-> ProductName["SKU1"], current_price |-> Num(p)]>>) :
                 p \in {84900, 129900}},
       {None, Some(<<>>),
        Some(<<[model_sku |-> Some("SKU2"), name |-> ProductName["SKU2"], current_price |-> Num(84900)]>>),
        Some(<<[model_sku |-> None, name |-> "Refurbished Mac", current_price |-> NoPrice]>>)} >>

\* all_products of scrape_category: the products of the pages that were
\* fetched, in page order
RECURSIVE AllProducts(_)
AllProducts(pages) ==
    IF pages = <<>> THEN <<>>
    ELSE (IF Head(pages) = None THEN <<>> ELSE Head(pages)[1]) \o AllProducts(Tail(pages))

\* The run is over: it returned or it raised
RunOver == step \in {"new", "returned", "raised"}

\* A run starts: __init__ and setup_google_sheets
StartRun ==
    /\ RunOver
    /\ run_count < MaxRunCount
    /\ run_count' = run_count + 1
    /\ \E library \in BOOLEAN, credentials \in BOOLEAN, failure \in SetupFailures :
        /\ google_client' = (library /\ credentials /\ failure # "authorize")
        /\ spreadsheet' = (library /\ credentials /\ failure = "none")
        /\ standardizer' = (library /\ credentials /\ failure = "none")
    /\ step' = "load_previous_data"
    /\ loaded' = FALSE
    /\ fetched' = FALSE
    /\ current_products' = <<>>
    /\ previous_data' = <<>>
    /\ price_changes' = <<>>
    /\ availability_changes' = <<>>
    /\ UNCHANGED <<pc, scraper, price_history, availability_history, clock, calls,
                   current_sheet, last_run, appended, listed, store_calls, returned,
                   price_vars, std_vars, variant_vars, colour_vars, batch_vars, extract_vars>>

\* previous_data = self.load_previous_data(): {} without a client and when
\* the read raises, else the records of the sheet by SKU
LoadSnapshot ==
    /\ step = "load_previous_data"
    /\ \E ok \in (IF google_client /\ spreadsheet THEN BOOLEAN ELSE {FALSE}),
          rendering \in Renderings :
        /\ loaded' = ok
        /\ previous_data' = IF ok THEN LoadRecords(current_sheet, rendering, <<>>) ELSE <<>>
    /\ step' = "scrape_category"
    /\ UNCHANGED <<pc, scraper, google_client, current_products, price_changes,
                   availability_changes, price_history, availability_history, clock, calls,
                   current_sheet, fetched, last_run, run_count, appended,
                   spreadsheet, standardizer, listed, store_calls, returned,
                   price_vars, std_vars, variant_vars, colour_vars, batch_vars, extract_vars>>

\* STEP 1 to STEP 3: the category pages are fetched, a page without a
\* document is skipped; the specs are added; the standardizer is called,
\* which raises when self.standardizer is None
ScrapeListing ==
    /\ step = "scrape_category"
    /\ \E pages \in {<<first, second>> : first \in PageListings[1], second \in PageListings[2]} :
        /\ current_products' = AllProducts(pages)
        /\ fetched' = (\E i \in 1..Len(pages) : pages[i] # None)
        /\ last_run' = IF standardizer THEN last_run
                       ELSE Some([products |-> AllProducts(pages), stored |-> FALSE])
    /\ step' = IF standardizer THEN "detect_and_log_changes" ELSE "raised"
    /\ UNCHANGED <<pc, scraper, google_client, previous_data, price_changes,
                   availability_changes, price_history, availability_history, clock, calls,
                   current_sheet, loaded, run_count, appended,
                   spreadsheet, standardizer, listed, store_calls, returned,
                   price_vars, std_vars, variant_vars, colour_vars, batch_vars, extract_vars>>

\* STEP 4: self.detect_and_log_changes(detailed_products, previous_data);
\* each batch of rows is appended whole or, when the store fails, not at all
DetectAndLogRun ==
    /\ step = "detect_and_log_changes"
    /\ clock' = clock + 1
    /\ IF ~google_client
       THEN UNCHANGED <<price_changes, availability_changes, price_history,
                        availability_history, appended>>
       ELSE LET current_lookup == CurrentLookup(current_products)
                found_prices == PriceChanges(clock, current_lookup, previous_data,
                                             "PRICE_INCREASE", "PRICE_DECREASE")
                found_availability == AvailabilityChanges(clock, current_lookup, previous_data)
            IN  /\ price_changes' = found_prices
                /\ availability_changes' = found_availability
                /\ \E taken \in BOOLEAN, kept \in BOOLEAN :
                      /\ price_history' = Logged(price_history, found_prices, FALSE,
                                                 IF taken THEN Len(found_prices) ELSE 0)
                      /\ availability_history' =
                            Logged(availability_history, found_availability, FALSE,
                                   IF kept THEN Len(found_availability) ELSE 0)
                      /\ appended' = (appended /\ (taken \/ found_prices = <<>>)
                                               /\ (kept \/ found_availability = <<>>))
    /\ step' = "update_current_inventory"
    /\ UNCHANGED <<pc, scraper, google_client, current_products, previous_data, calls,
                   current_sheet, loaded, fetched, last_run, run_count, spreadsheet, standardizer, listed, store_calls, returned,
                   price_vars, std_vars, variant_vars, colour_vars, batch_vars, extract_vars>>

\* The points where update_current_inventory may raise: nowhere, before
\* the sheet is cleared, after it is cleared (while the rows are uploaded)
WriteFailures == {"none", "before_clear", "after_clear"}

\* STEP 5: self.update_current_inventory(detailed_products), then the
\* steps that write the other sheets, and the return
WriteSnapshot ==
    /\ step = "update_current_inventory"
    /\ \E failure \in (IF ~google_client THEN {"before_clear"}
                      ELSE IF current_products = <<>> THEN {"none", "before_clear"}
                      ELSE WriteFailures) :
        /\ current_sheet' = IF failure = "before_clear" THEN current_sheet
                            ELSE IF failure = "after_clear" THEN <<>>
                            ELSE SheetRows(current_products)
        /\ last_run' = Some([products |-> current_products,
                             stored |-> failure = "none"])
    /\ step' = "returned"
    /\ UNCHANGED <<pc, detect_vars, loaded, fetched, run_count, appended,
                   spreadsheet, standardizer, listed, store_calls, returned,
                   price_vars, std_vars, variant_vars, colour_vars, batch_vars, extract_vars>>

InitRuns ==
    /\ pc = "start"
    /\ IdlePrice
    /\ IdleStd
    /\ IdleDetect
    /\ IdleVariant
    /\ IdleColour
    /\ IdleBatch
    /\ IdleRun
    /\ IdleExtract
    /\ IdleSnapshot

NextRuns == StartRun \/ LoadSnapshot \/ ScrapeListing \/ DetectAndLogRun \/ WriteSnapshot

SpecRuns == InitRuns /\ [][NextRuns]_vars

-----------------------------------------------------------------------------
(* Claims about runs that follow one another *)

\* The SKUs of a list of products, each with its price
SkuPrices(products) ==
    {<<products[i].model_sku[1], products[i].current_price>> :
        i \in {j \in 1..Len(products) : products[j].model_sku # None}}

\* The step of a run that compares the listing with the snapshot
DetectionStep == step = "detect_and_log_changes" /\ step' = "update_current_inventory"

\* The run before this one wrote the snapshot, this run read it, and the
\* listing of this run has the SKUs and the prices of the run before
SteadyState ==
    /\ last_run # None
    /\ last_run[1].stored
    /\ loaded
    /\ SkuPrices(current_products) = SkuPrices(last_run[1].products)

\* C28: when a run wrote the snapshot and the next run reads it and scrapes
\* the same SKUs at the same prices, the next run finds no change and
\* appends no row to the Price History or the Availability History.
C28_SteadyState ==
    [][DetectionStep /\ SteadyState =>
          /\ price_changes' = <<>>
          /\ availability_changes' = <<>>
          /\ price_history' = price_history
          /\ availability_history' = availability_history]_vars

\* The second run compared a listing of two SKUs with the snapshot the
\* first run wrote from the same listing
C28_Witness ==
    /\ step = "update_current_inventory"
    /\ run_count = 2
    /\ SteadyState
    /\ Cardinality(SkuPrices(current_products)) = 2
    /\ availability_changes = <<>>
    /\ availability_history # <<>>

\* The availability events the log holds for one SKU, oldest first
EventsOf(sku) ==
    LET rows == SelectSeq(availability_history, LAMBDA row : row.model_sku = sku)
    IN  [i \in 1..Len(rows) |-> rows[i].change_type]

\* C29: over runs that start from an empty snapshot, snapshot reads and
\* writes that fail included, the availability events logged for one SKU
\* alternate APPEARED, DISAPPEARED, APPEARED, ..., beginning with APPEARED
\* (as long as every batch of events found was appended to the log).
C29_EventsAlternate ==
    appended =>
        \A sku \in SKUs :
            \A i \in 1..Len(EventsOf(sku)) :
                EventsOf(sku)[i] = IF i % 2 = 1 THEN "APPEARED" ELSE "DISAPPEARED"

\* The step of a run that writes the snapshot
SnapshotStep == step = "update_current_inventory" /\ step' = "returned"

\* C30: a run in which the fetch of every category page fails logs no
\* DISAPPEARED event and leaves the Current Inventory snapshot as it was.
C30_FailedScrapeChangesNothing ==
    [][~fetched =>
          /\ DetectionStep =>
                /\ \A i \in 1..Len(availability_changes') :
                      availability_changes'[i].change_type # "DISAPPEARED"
                /\ availability_history' = availability_history
          /\ SnapshotStep => current_sheet' = current_sheet]_vars

====
